---------------------------- MODULE Spec2Model ----------------------------
(***************************************************************************)
(* A model of divortio-session-worker: the push-id codec, the session      *)
(* lifecycle engine (sessionManager.process / rehydrate), the stateful     *)
(* owner (SessionDO) and the stateless router (worker.mjs).                *)
(*                                                                         *)
(* Strings are sequences of character codes (ASCII).  The JavaScript value *)
(* null is the one-element sequence Null, the empty string is << >>.       *)
(* Times are milliseconds; a null time is NullTime.                        *)
(***************************************************************************)
EXTENDS Integers, Sequences, FiniteSets, TLC

(***************************************************************************)
(* Bounds of the model (not program constants).                            *)
(***************************************************************************)
\* Date.now() of the first state; the real clock is far above the timeout.
ClockStart == 2000000
\* How many times the clock may advance.
MaxTicks == 2
\* How many requests the router may accept in one behaviour.
MaxRequests == 2
\* How many different strings the random source can produce.
NumRand == 2
\* DO_TTL_SECONDS of the deployment (wrangler.toml); 1800 s = the timeout.
TtlSeconds == 1800
\* How many requests may be in flight at once.
MaxInFlight == 2

(***************************************************************************)
(* JavaScript values.                                                      *)
(***************************************************************************)
Null == <<0 - 1>>
NullTime == -1

Falsy(s) == s = Null \/ s = << >>
Truthy(s) == ~Falsy(s)

\* x || null
OrNull(s) == IF Falsy(s) THEN Null ELSE s

Range(s) == {s[i] : i \in DOMAIN s}

(***************************************************************************)
(* pushID.js: the codec.                                                   *)
(***************************************************************************)
\* '0123456789ABCDEFGHIJKLMNOPQRSTUVWXYZ_abcdefghijklmnopqrstuvwxyz~'
PUSH_CHARS ==
    <<48, 49, 50, 51, 52, 53, 54, 55, 56, 57,
      65, 66, 67, 68, 69, 70, 71, 72, 73, 74, 75, 76, 77,
      78, 79, 80, 81, 82, 83, 84, 85, 86, 87, 88, 89, 90,
      95,
      97, 98, 99, 100, 101, 102, 103, 104, 105, 106, 107, 108, 109,
      110, 111, 112, 113, 114, 115, 116, 117, 118, 119, 120, 121, 122,
      126>>

\* PUSH_CHARS.charAt(i), i from 0
charAt(i) == PUSH_CHARS[i + 1]

\* for (i...) CHARS_MAP[PUSH_CHARS[i]] = i
CHARS_MAP == [c \in Range(PUSH_CHARS) |->
                 CHOOSE i \in 0..(Len(PUSH_CHARS) - 1) : PUSH_CHARS[i + 1] = c]

Dash == 45
TimeLen == 8
MinRandLen == 12

\* The loop of _generateObject that encodes the timestamp:
\*   for (i = 7; i >= 0; i--) { timeChars[i] = charAt(t % 64); t = floor(t / 64) }
RECURSIVE encodeLoop(_, _, _)
encodeLoop(t, i, acc) ==
    IF i < 0 THEN acc
    ELSE encodeLoop(t \div Len(PUSH_CHARS), i - 1,
                    <<charAt(t % Len(PUSH_CHARS))>> \o acc)

\* an off-by-one in the loop bound: seven digits instead of eight
encodeTime_sevenDigits(t) == encodeLoop(t, TimeLen - 2, << >>)

encodeTime(t) == encodeLoop(t, TimeLen - 1, << >>)

\* _decodeTime(timeStr): null on a character outside the alphabet.
RECURSIVE decodeTimeLoop(_, _, _)
decodeTimeLoop(timeStr, i, timestamp) ==
    IF i > Len(timeStr) THEN timestamp
    ELSE IF timeStr[i] \notin DOMAIN CHARS_MAP THEN NullTime
    ELSE decodeTimeLoop(timeStr, i + 1,
                        timestamp * Len(PUSH_CHARS) + CHARS_MAP[timeStr[i]])

decodeTimeStr(timeStr) == decodeTimeLoop(timeStr, 1, 0)

\* A JavaScript Number holds every integer below 2^53 exactly.  A timestamp
\* of up to 48 bits is kept here as <<high, low>>, two limbs of 24 bits, and
\* the three operations the codec applies to it are done on the limbs.
Limb == 2 ^ 24

\* the same, with the carry from the high limb lost
wideDiv64_dropsCarry(w) == <<w[1] \div 64, w[2] \div 64>>

\* Math.floor(timestampNow / 64)
wideDiv64(w) == <<w[1] \div 64, (w[1] % 64) * (Limb \div 64) + w[2] \div 64>>

\* timestampNow % 64
wideMod64(w) == w[2] % 64

\* timestamp * 64 + charValue
wideMul64Add(w, charValue) ==
    <<w[1] * 64 + (w[2] * 64 + charValue) \div Limb, (w[2] * 64 + charValue) % Limb>>

\* the digits written from index 0 upwards: least significant digit first
RECURSIVE encodeWideLoop_littleEndian(_, _, _)
encodeWideLoop_littleEndian(w, i, acc) ==
    IF i < 0 THEN acc
    ELSE encodeWideLoop_littleEndian(wideDiv64(w), i - 1, acc \o <<charAt(wideMod64(w))>>)

\* for (let i = 7; i >= 0; i--) on a timestamp of two limbs
RECURSIVE encodeWideLoop(_, _, _)
encodeWideLoop(w, i, acc) ==
    IF i < 0 THEN acc
    ELSE encodeWideLoop(wideDiv64(w), i - 1, <<charAt(wideMod64(w))>> \o acc)

encodeTimeWide(w) == encodeWideLoop(w, TimeLen - 1, << >>)

\* _decodeTime on a timestamp of two limbs
RECURSIVE decodeWideLoop(_, _, _)
decodeWideLoop(timeStr, i, w) ==
    IF i > Len(timeStr) THEN w
    ELSE IF timeStr[i] \notin DOMAIN CHARS_MAP THEN <<NullTime, NullTime>>
    ELSE decodeWideLoop(timeStr, i + 1, wideMul64Add(w, CHARS_MAP[timeStr[i]]))

decodeTimeWide(timeStr) == decodeWideLoop(timeStr, 1, <<0, 0>>)

\* t1 < t2 on timestamps of two limbs
wideLess(a, b) == a[1] < b[1] \/ (a[1] = b[1] /\ a[2] < b[2])

\* id.split('-')
RECURSIVE splitLoop(_, _, _, _)
splitLoop(s, i, cur, parts) ==
    IF i > Len(s) THEN Append(parts, cur)
    ELSE IF s[i] = Dash THEN splitLoop(s, i + 1, << >>, Append(parts, cur))
    ELSE splitLoop(s, i + 1, Append(cur, s[i]), parts)

split(s) == splitLoop(s, 1, << >>, << >>)

NoObj == [ok |-> FALSE, randomness |-> Null, date |-> NullTime,
          stub |-> Null, encodedTime |-> Null]

\* _decodeObj(id): the delimited form first, then the legacy fixed-width form.
decodeObj(id) ==
    IF id = Null \/ Len(id) = 0 THEN NoObj
    ELSE LET parts == split(id) IN
         IF Len(parts) = 3
         THEN LET timestamp == decodeTimeStr(parts[1]) IN
              IF timestamp = NullTime THEN NoObj
              ELSE [ok |-> TRUE, randomness |-> parts[3], date |-> timestamp,
                    stub |-> parts[2], encodedTime |-> parts[1]]
         ELSE IF Len(id) < TimeLen THEN NoObj
         ELSE LET timeStr == SubSeq(id, 1, TimeLen)
                  timestamp == decodeTimeStr(timeStr) IN
              IF timestamp = NullTime THEN NoObj
              ELSE [ok |-> TRUE, randomness |-> SubSeq(id, TimeLen + 1, Len(id)),
                    date |-> timestamp, stub |-> Null, encodedTime |-> timeStr]

\* publicApi.decodeTime(id): d ? d.date.getTime() : null
decodeTime(id) ==
    LET d == decodeObj(id) IN IF d.ok THEN d.date ELSE NullTime

\* new Date(x).getTime() for x a number or null: new Date(null) is the epoch.
DateOf(t) == IF t = NullTime THEN 0 ELSE t

\* The strings publicApi.newRnd(length) can return: max(12, length) characters
\* of PUSH_CHARS drawn from the pseudo-random generator.
Max(a, b) == IF a >= b THEN a ELSE b

newRnd(length) ==
    {[i \in 1..Max(MinRandLen, length) |-> charAt(k)] : k \in 0..(NumRand - 1)}

\* _generateObject({length}) with no time, stub, randomness or data option:
\* now = Date.now(), the legacy (undelimited) form.
generateObject(length, now, randStr) ==
    [id |-> encodeTime(now) \o randStr, randomness |-> randStr,
     date |-> now, stub |-> Null]

(***************************************************************************)
(* sessionManager.js: the lifecycle engine.                                *)
(***************************************************************************)
SessionTimeout == 30 * 60 * 1000
RandomnessLength == 12

Keys == {"cID", "sID", "eID"}

\* const lastActivityTime = prevEID ? decodeTime(prevEID)
\*     : (sID ? decodeTime(sID) : (cID ? decodeTime(cID) : null))
lastActivityTimeOf(cID, sID, prevEID) ==
    IF Truthy(prevEID) THEN decodeTime(prevEID)
    ELSE IF Truthy(sID) THEN decodeTime(sID)
    ELSE IF Truthy(cID) THEN decodeTime(cID)
    ELSE NullTime

isSessionExpired_atTimeout(lastActivityTime, now) ==
    IF lastActivityTime # NullTime /\ lastActivityTime # 0
    THEN (now - lastActivityTime) >= SessionTimeout
    ELSE TRUE

\* lastActivityTime ? (Date.now() - lastActivityTime) > sessionTimeout : true
\* (null and 0 are falsy)
isSessionExpired(lastActivityTime, now) ==
    IF lastActivityTime # NullTime /\ lastActivityTime # 0
    THEN (now - lastActivityTime) > SessionTimeout
    ELSE TRUE

\* every request opens a session
isNewSession_always(sID, expired) == TRUE

\* const isNewSession = !sID || isSessionExpired
isNewSessionOf(sID, expired) == Falsy(sID) \/ expired

finalCID_fromCookieOnly(cID, newId) == cID
finalCID_alwaysNew(cID, newId) == newId

\* const finalCID = cID || newEIDObj.id
finalCIDOf(cID, newId) == IF Truthy(cID) THEN cID ELSE newId

\* the session id replaced on every request
finalSID_alwaysNew(isNewSession, sID, newId) == newId

\* the session id never replaced
finalSID_keepsPrevious(isNewSession, sID, newId) == sID

\* const finalSID = isNewSession ? newEIDObj.id : sID
finalSIDOf(isNewSession, sID, newId) == IF isNewSession THEN newId ELSE sID

\* sessionManager.process({storageHandler}) at Date.now() = now, the random
\* source giving randStr.  minted lists the identifiers this invocation
\* generated (the calls of pushID.newObj).
process(storageHandler, now, randStr) ==
    LET cID == storageHandler["cID"]
        sID == storageHandler["sID"]
        prevEID == storageHandler["eID"]
        oldState == [cID |-> cID, sID |-> sID, eID |-> prevEID,
                     clientTime |-> IF Truthy(cID) THEN DateOf(decodeTime(cID)) ELSE NullTime,
                     sessionTime |-> IF Truthy(sID) THEN DateOf(decodeTime(sID)) ELSE NullTime,
                     eventTime |-> IF Truthy(prevEID) THEN DateOf(decodeTime(prevEID)) ELSE NullTime]
        lastActivityTime == lastActivityTimeOf(cID, sID, prevEID)
        expired == isSessionExpired(lastActivityTime, now)
        isNewClient == Falsy(cID)
        isNewSession == isNewSessionOf(sID, expired)
        newEIDObj == generateObject(RandomnessLength, now, randStr)
        finalCID == finalCIDOf(cID, newEIDObj.id)
        finalSID == finalSIDOf(isNewSession, sID, newEIDObj.id)
        newState == [cID |-> finalCID, sID |-> finalSID, eID |-> newEIDObj.id,
                     clientTime |-> DateOf(decodeTime(finalCID)),
                     sessionTime |-> DateOf(decodeTime(finalSID)),
                     eventTime |-> newEIDObj.date]
    IN [newState |-> newState, oldState |-> oldState,
        changes |-> [isNewClient |-> isNewClient, isNewSession |-> isNewSession],
        minted |-> <<newEIDObj.id>>]

\* storageHandler: {get: (key) => state[key] || null}
handlerOf(state) == [k \in Keys |-> OrNull(state[k])]

\* sessionManager.rehydrate(cookieState)
rehydrate(cookieState, now, randStr) ==
    process(handlerOf(cookieState), now, randStr)
(***************************************************************************)
(* hashIsh: the deterministic hash.  A 32-bit word is the pair <<hi, lo>>  *)
(* of its 16-bit halves.                                                   *)
(***************************************************************************)
Half == 65536

RECURSIVE xorBits(_, _)
xorBits(a, b) ==
    IF a = 0 THEN b
    ELSE IF b = 0 THEN a
    ELSE ((a + b) % 2) + 2 * xorBits(a \div 2, b \div 2)

\* the exclusive or of two 4-bit numbers, tabulated
XorTable == [a \in 0..15 |-> [b \in 0..15 |-> xorBits(a, b)]]

xor16(a, b) ==
    XorTable[a % 16][b % 16]
    + 16 * XorTable[(a \div 16) % 16][(b \div 16) % 16]
    + 256 * XorTable[(a \div 256) % 16][(b \div 256) % 16]
    + 4096 * XorTable[a \div 4096][b \div 4096]

\* a ^ b
xor(a, b) == <<xor16(a[1], b[1]), xor16(a[2], b[2])>>

\* the low 32 bits of the product of two 16-bit numbers
mul16(x, y) ==
    LET p1 == x * (y \div 256)
        p0 == x * (y % 256)
        low == p0 + (p1 % 256) * 256
    IN <<((p1 \div 256) + (low \div Half)) % Half, low % Half>>

\* Math.imul(a, b)
imul(a, b) ==
    LET ll == mul16(a[2], b[2])
        hl == mul16(a[1], b[2])
        lh == mul16(a[2], b[1])
    IN <<(ll[1] + hl[2] + lh[2]) % Half, ll[2]>>

\* a >>> 16 and a >>> 13
shr16(a) == <<0, a[1]>>
shr13(a) ==
    LET v == a[1] * 8 + (a[2] \div 8192) IN <<v \div Half, v % Half>>

\* (a >> s) & 63 for s <= 12: bits s .. s+5
bits6(a, s) == (((a[1] % 4) * Half + a[2]) \div (2 ^ s)) % 64

\* h1 = 1779033703, h2 = 3144134277, h3 = 1013904242, h4 = 2773480762
HashSeed == <<<<27145, 58983>>, <<47975, 44677>>, <<15470, 62322>>, <<42319, 62778>>>>
\* 597399067, 2869860233, 951274213, 2716044179
HashMul == <<<<9115, 38427>>, <<43790, 38793>>, <<14515, 19173>>, <<41443, 35731>>>>
\* 2246822507 and 3266489909
HashMixA == <<34283, 51819>>
HashMixB == <<49842, 44597>>

\* One round of the loop over serialized.charCodeAt(i).
hashRound(h, k) ==
    LET a1 == xor(h[2], imul(h[1], HashMul[1]))
        a2 == xor(h[3], imul(h[2], HashMul[2]))
        a3 == xor(h[4], imul(h[3], HashMul[3]))
        a4 == xor(a1, imul(h[4], HashMul[4]))
        b1 == imul(xor(a1, shr16(a1)), HashMixA)
        b2 == imul(xor(a2, shr13(a2)), HashMixB)
        b3 == imul(xor(a3, shr16(a3)), HashMixA)
        b4 == imul(xor(a4, shr13(a4)), HashMixB)
    IN <<xor(b1, <<0, k>>), b2, b3, b4>>

\* for (let i = 0; i < serialized.length; i++) {...}: the rounds for the
\* characters lo..hi, computed by halves.
RECURSIVE hashLoop(_, _, _, _)
hashLoop(serialized, lo, hi, h) ==
    IF lo > hi THEN h
    ELSE IF lo = hi THEN hashRound(h, serialized[lo])
    ELSE LET mid == (lo + hi) \div 2
             left == hashLoop(serialized, lo, mid, h)
         IN IF left[1][1] >= 0 THEN hashLoop(serialized, mid + 1, hi, left) ELSE h

\* hashChars[i] = PUSH_CHARS.charAt((state[i % 4] >> ((i % 5) * 3)) & 63)
hashChars(h, length) ==
    [j \in 1..length |->
        charAt(bits6(h[((j - 1) % 4) + 1], ((j - 1) % 5) * 3))]

\* A JavaScript value: a string [t |-> "str", v |-> characters], null, an
\* array [t |-> "arr", v |-> values] or an object [t |-> "obj", v |-> the
\* sequence of <<key, value>> in insertion order].
Str(v) == [t |-> "str", v |-> v]
Obj(v) == [t |-> "obj", v |-> v]
Arr(v) == [t |-> "arr", v |-> v]
JsNull == [t |-> "null", v |-> << >>]

\* string comparison by code units, as Array.prototype.sort() compares
RECURSIVE strLess(_, _)
strLess(a, b) ==
    IF Len(a) = 0 THEN Len(b) > 0
    ELSE IF Len(b) = 0 THEN FALSE
    ELSE IF a[1] # b[1] THEN a[1] < b[1]
    ELSE strLess(Tail(a), Tail(b))

RECURSIVE insertKey(_, _)
insertKey(sorted, pair) ==
    IF Len(sorted) = 0 THEN <<pair>>
    ELSE IF strLess(pair[1], sorted[1][1]) THEN <<pair>> \o sorted
    ELSE <<sorted[1]>> \o insertKey(Tail(sorted), pair)

\* the keys in insertion order, as Object.keys(val) gives them
sortKeys_insertionOrder(pairs) == pairs

\* Object.keys(val).sort(), each key with its value
RECURSIVE sortKeys(_)
sortKeys(pairs) ==
    IF Len(pairs) = 0 THEN << >>
    ELSE insertKey(sortKeys(Tail(pairs)), pairs[1])

Quote == 34
Backslash == 92

\* JSON.stringify(s) of a string of printable ASCII
RECURSIVE escapeChars(_)
escapeChars(s) ==
    IF Len(s) = 0 THEN << >>
    ELSE (IF s[1] = Quote \/ s[1] = Backslash THEN <<Backslash, s[1]>> ELSE <<s[1]>>)
         \o escapeChars(Tail(s))

stringify(s) == <<Quote>> \o escapeChars(s) \o <<Quote>>

\* _serialize(val)
RECURSIVE serialize(_)
RECURSIVE serializeList(_, _)
serializeList(items, isObject) ==
    IF Len(items) = 0 THEN << >>
    ELSE LET one == IF isObject
                    THEN stringify(items[1][1]) \o <<58>> \o serialize(items[1][2])
                    ELSE serialize(items[1])
         IN one \o (IF Len(items) > 1 THEN <<44>> ELSE << >>)
                \o serializeList(Tail(items), isObject)

serialize(val) ==
    IF val.t = "null" THEN <<110, 117, 108, 108>>
    ELSE IF val.t = "str" THEN stringify(val.v)
    ELSE IF val.t = "arr" THEN <<91>> \o serializeList(val.v, FALSE) \o <<93>>
    ELSE <<123>> \o serializeList(sortKeys(val.v), TRUE) \o <<125>>

\* hashIsh(input, length, PUSH_CHARS)
hashIsh(input, length) ==
    LET serialized == serialize(input)
    IN hashChars(hashLoop(serialized, 1, Len(serialized), HashSeed), length)

(***************************************************************************)
(* fingerprint.mjs: the browser fingerprint and the stable owner key.      *)
(*                                                                         *)
(* A request is a record: headers ip (cf-connecting-ip), userAgent,        *)
(* acceptLang, acceptEnc and cookie, each a string or Null when the header *)
(* is absent, and cf, with cf.present = FALSE when request.cf is           *)
(* undefined.                                                              *)
(***************************************************************************)
\* the keys of the attribute map
IP_KEY == <<105, 112>>
UA_KEY == <<117, 115, 101, 114, 65, 103, 101, 110, 116>>
LANG_KEY == <<97, 99, 99, 101, 112, 116, 76, 97, 110, 103>>
ENC_KEY == <<97, 99, 99, 101, 112, 116, 69, 110, 99>>
CIPHER_KEY == <<116, 108, 115, 67, 105, 112, 104, 101, 114>>
PROTO_KEY == <<104, 116, 116, 112, 80, 114, 111, 116, 111, 99, 111, 108>>
COLO_KEY == <<99, 111, 108, 111>>

\* x || ''
OrEmpty(s) == IF Falsy(s) THEN << >> ELSE s

\* request.cf?.name
cfGet(request, name) == IF request.cf.present THEN request.cf[name] ELSE Null

\* a variant that adds the colo whatever includeColo says
getRawFingerprintData_alwaysColo(request, includeColo) ==
    Obj(<< <<IP_KEY, Str(OrEmpty(request.ip))>>,
           <<UA_KEY, Str(OrEmpty(request.userAgent))>>,
           <<LANG_KEY, Str(OrEmpty(request.acceptLang))>>,
           <<ENC_KEY, Str(OrEmpty(request.acceptEnc))>>,
           <<CIPHER_KEY, Str(OrEmpty(cfGet(request, "tlsCipher")))>>,
           <<PROTO_KEY, Str(OrEmpty(cfGet(request, "httpProtocol")))>> >>
        \o (IF Truthy(cfGet(request, "colo"))
            THEN << <<COLO_KEY, Str(cfGet(request, "colo"))>> >>
            ELSE << >>))

\* getRawFingerprintData(request, includeColo)
getRawFingerprintData(request, includeColo) ==
    Obj(<< <<IP_KEY, Str(OrEmpty(request.ip))>>,
           <<UA_KEY, Str(OrEmpty(request.userAgent))>>,
           <<LANG_KEY, Str(OrEmpty(request.acceptLang))>>,
           <<ENC_KEY, Str(OrEmpty(request.acceptEnc))>>,
           <<CIPHER_KEY, Str(OrEmpty(cfGet(request, "tlsCipher")))>>,
           <<PROTO_KEY, Str(OrEmpty(cfGet(request, "httpProtocol")))>> >>
        \o (IF includeColo /\ Truthy(cfGet(request, "colo"))
            THEN << <<COLO_KEY, Str(cfGet(request, "colo"))>> >>
            ELSE << >>))

KeyLength == 16

\* The user-agent header of the visitor.
VisitorUA == <<85, 65, 107, 106, 118, 110, 102>>

\* The values request.cf can have.
NoCf == [present |-> FALSE, tlsCipher |-> Null, httpProtocol |-> Null, colo |-> Null]
CfOf(tlsCipher, colo) ==
    [present |-> TRUE, tlsCipher |-> tlsCipher, httpProtocol |-> Null, colo |-> colo]
CfChoices ==
    {NoCf, CfOf(Null, Null), CfOf(Null, <<69>>), CfOf(Null, <<87>>), CfOf(<<84>>, <<69>>)}

RequestOf(ip, userAgent, cf, cookie) ==
    [ip |-> ip, userAgent |-> userAgent, acceptLang |-> Null, acceptEnc |-> Null,
     cookie |-> cookie, cf |-> cf]

\* The visitor of the system model: one address, one browser, no cf.colo.
Visitor(cookie) == RequestOf(<<49>>, VisitorUA, CfOf(Null, Null), cookie)

ModelIps == {<<49>>, <<50>>}
ModelUserAgents == {Null, VisitorUA}

\* The attribute maps of the requests of this model, and their hashes,
\* computed once: hashIsh(rawData, 16, HASH_CHARS).
HashedMaps ==
    {getRawFingerprintData(RequestOf(ip, ua, cf, Null), includeColo) :
        ip \in ModelIps, ua \in ModelUserAgents, cf \in CfChoices,
        includeColo \in BOOLEAN}

HashTable == [rawData \in HashedMaps |-> hashIsh(rawData, KeyLength)]

hashOf(rawData) ==
    IF rawData \in DOMAIN HashTable THEN HashTable[rawData]
    ELSE hashIsh(rawData, KeyLength)

\* createBrowserFingerprint(request): the colo included
createBrowserFingerprint(request) ==
    hashOf(getRawFingerprintData(request, TRUE))

\* createStableDurableObjectKey(request): the colo excluded
createStableDurableObjectKey(request) ==
    hashOf(getRawFingerprintData(request, FALSE))

(***************************************************************************)
(* clientServerSession.js: reading and writing the cookies.                *)
(***************************************************************************)
Semicolon == 59
Equals == 61
Percent == 37
Space == 32

\* str.split(sep) for a one-character separator: the pieces of the
\* characters lo..hi, computed by halves.
RECURSIVE splitRange(_, _, _, _)
splitRange(s, sep, lo, hi) ==
    IF lo > hi THEN << << >> >>
    ELSE IF lo = hi THEN (IF s[lo] = sep THEN << << >>, << >> >> ELSE << <<s[lo]>> >>)
    ELSE LET mid == (lo + hi) \div 2
             left == splitRange(s, sep, lo, mid)
             right == splitRange(s, sep, mid + 1, hi)
         IN SubSeq(left, 1, Len(left) - 1)
            \o << left[Len(left)] \o right[1] >>
            \o Tail(right)

splitOn(s, sep) == splitRange(s, sep, 1, Len(s))

\* parts.join(sep)
RECURSIVE join(_, _)
join(parts, sep) ==
    IF Len(parts) = 0 THEN << >>
    ELSE IF Len(parts) = 1 THEN parts[1]
    ELSE parts[1] \o sep \o join(Tail(parts), sep)

\* white space of String.prototype.trim within ASCII: tab, LF, VT, FF, CR, space
IsSpace(c) == c \in {9, 10, 11, 12, 13, Space}

RECURSIVE trimStart(_)
trimStart(s) ==
    IF Len(s) > 0 /\ IsSpace(s[1]) THEN trimStart(Tail(s)) ELSE s

RECURSIVE trimEnd(_)
trimEnd(s) ==
    IF Len(s) > 0 /\ IsSpace(s[Len(s)]) THEN trimEnd(SubSeq(s, 1, Len(s) - 1)) ELSE s

trim(s) == trimEnd(trimStart(s))

\* The value decodeURIComponent raises (a URIError), as a result.
URIError == <<0 - 2>>

\* the value of a hexadecimal digit, -1 for any other character
hexVal(c) ==
    IF c >= 48 /\ c <= 57 THEN c - 48
    ELSE IF c >= 65 /\ c <= 70 THEN c - 55
    ELSE IF c >= 97 /\ c <= 102 THEN c - 87
    ELSE 0 - 1

\* decodeURIComponent(s) for escapes of one-byte (ASCII) characters; a '%'
\* not followed by two hexadecimal digits, or a byte that is not a complete
\* UTF-8 sequence, raises.
RECURSIVE decodeLoop(_, _, _)
decodeLoop(s, i, acc) ==
    IF i > Len(s) THEN acc
    ELSE IF s[i] # Percent THEN decodeLoop(s, i + 1, Append(acc, s[i]))
    ELSE IF i + 2 > Len(s) \/ hexVal(s[i + 1]) < 0 \/ hexVal(s[i + 2]) < 0
              \/ hexVal(s[i + 1]) >= 8
         THEN URIError
         ELSE decodeLoop(s, i + 3, Append(acc, 16 * hexVal(s[i + 1]) + hexVal(s[i + 2])))

decodeURIComponent(s) == decodeLoop(s, 1, << >>)

\* the characters encodeURIComponent leaves alone: A-Z a-z 0-9 - _ . ! ~ * ' ( )
Unreserved(c) ==
    \/ (c >= 48 /\ c <= 57) \/ (c >= 65 /\ c <= 90) \/ (c >= 97 /\ c <= 122)
    \/ c \in {45, 95, 46, 33, 126, 42, 39, 40, 41}

hexDigit(n) == IF n < 10 THEN 48 + n ELSE 55 + n

\* encodeURIComponent(s) of an ASCII string
RECURSIVE encodeURIComponent(_)
encodeURIComponent(s) ==
    IF Len(s) = 0 THEN << >>
    ELSE (IF Unreserved(s[1]) THEN <<s[1]>>
          ELSE <<Percent, hexDigit(s[1] \div 16), hexDigit(s[1] % 16)>>)
         \o encodeURIComponent(Tail(s))

\* constants.mjs: the cookie keys
CID_COOKIE == <<99, 73, 68>>
SID_COOKIE == <<115, 73, 68>>
EID_COOKIE == <<101, 73, 68>>
FPID_COOKIE == <<102, 112, 73, 68>>

\* finalConfig.prefix: the callers pass appPrefix, serverPrefix and
\* clientPrefix, which get and set do not read, so the prefix stays ''.
Prefix == << >>
\* `${finalConfig.prefix}_ss_${key}` and `${finalConfig.prefix}_cs_${key}`
serverKeyOf(key) == Prefix \o <<95, 115, 115, 95>> \o key
clientKeyOf(key) == Prefix \o <<95, 99, 115, 95>> \o key

\* cookieHeader.split(';').reduce(...): the pairs <<name, value>> in the
\* order of the header, for the parts that hold an '='.
RECURSIVE parseCookieParts(_)
parseCookieParts(cookieList) ==
    IF Len(cookieList) = 0 THEN << >>
    ELSE LET parts == splitOn(trim(cookieList[1]), Equals)
             rest == parseCookieParts(Tail(cookieList))
         IN IF Len(parts) >= 2
            THEN << <<parts[1], join(Tail(parts), <<Equals>>)>> >> \o rest
            ELSE rest

\* acc[name]: the last assignment wins; Null for undefined
RECURSIVE lookup(_, _)
lookup(cookies, name) ==
    IF Len(cookies) = 0 THEN Null
    ELSE IF cookies[Len(cookies)][1] = name THEN cookies[Len(cookies)][2]
    ELSE lookup(SubSeq(cookies, 1, Len(cookies) - 1), name)

\* The object the reduce builds from the header.
parseCookies(cookieHeader) == parseCookieParts(splitOn(cookieHeader, Semicolon))

\* serverValue = cookies[serverKey] ? decodeURIComponent(cookies[serverKey]) : null;
\* if (serverValue) return serverValue; the same for clientKey otherwise.
\* URIError when decodeURIComponent raises.
valueIn(cookies, key) ==
    LET rawServer == lookup(cookies, serverKeyOf(key))
        rawClient == lookup(cookies, clientKeyOf(key))
        serverValue == IF Truthy(rawServer) THEN decodeURIComponent(rawServer) ELSE Null
    IN IF Truthy(serverValue) THEN serverValue
       ELSE IF Truthy(rawClient) THEN decodeURIComponent(rawClient) ELSE Null

\* serverStorage.get(key, cookieHeader): the _ss_ cookie first, then the
\* _cs_ cookie.
get(key, cookieHeader) ==
    IF Falsy(cookieHeader) THEN Null
    ELSE valueIn(parseCookies(cookieHeader), key)

\* buildCookieString(name, val, opts): `${name}=${encodeURIComponent(val)}`
\* followed by the attributes, kept as fields (Path=/, Secure and
\* SameSite=Strict are the same on every cookie).
buildCookieString(name, val, expires, httpOnly) ==
    [nameValue |-> name \o <<Equals>> \o encodeURIComponent(val),
     expires |-> expires, httpOnly |-> httpOnly]

\* serverStorage.set(key, value, {expires}): the HttpOnly cookie and the
\* client-readable one.
set(key, value, expires) ==
    <<buildCookieString(serverKeyOf(key), value, expires, TRUE),
      buildCookieString(clientKeyOf(key), value, expires, FALSE)>>

(***************************************************************************)
(* worker.mjs: the stateless router.                                       *)
(***************************************************************************)
\* storageReader.get(env.CID_COOKIE_NAME || CID_COOKIE, cookieHeader)
existingCIDOf(request) == get(CID_COOKIE, request.cookie)

\* if (existingCID) doName = existingCID; else doName = createStableDurableObjectKey(request)
doNameOf(request) ==
    IF Truthy(existingCIDOf(request)) THEN existingCIDOf(request)
    ELSE createStableDurableObjectKey(request)

\* let isNewDoID = false; ... else { ...; isNewDoID = true }
isNewDoIDOf(request) == Falsy(existingCIDOf(request))

\* const isNewFpID = !existingFpID || existingFpID !== fpID
isNewFpIDOf(request, fpID) ==
    LET existingFpID == get(FPID_COOKIE, request.cookie)
    IN Falsy(existingFpID) \/ existingFpID # fpID

\* Reading the cookies raised: the catch block of processSession runs.
routerThrows(request) ==
    \/ existingCIDOf(request) = URIError
    \/ get(FPID_COOKIE, request.cookie) = URIError

\* What the router passes to sessionStub.processSession.
locate(request) ==
    LET fpID == createBrowserFingerprint(request)
    IN [doName |-> doNameOf(request), isNewDoID |-> isNewDoIDOf(request),
        fpID |-> fpID, isNewFpID |-> isNewFpIDOf(request, fpID)]

(***************************************************************************)
(* sessionDO.mjs: the stateful owner.                                      *)
(***************************************************************************)
NullState == [cID |-> Null, sID |-> Null, eID |-> Null]

\* An owner nobody has called yet: the constructor has set inMemoryState to
\* null (the empty sequence; <<state>> once loaded), storage holds nothing
\* and no alarm is set.  epoch counts the firings of the alarm.
FreshOwner ==
    [inMemoryState |-> << >>, storage |-> NullState, alarm |-> NullTime, epoch |-> 0]

\* an alarm that is set once and not moved by later requests
setTtlAlarm_onlyFirst(owner, ttlSeconds, time) ==
    IF ttlSeconds > 0 /\ owner.alarm = NullTime
    THEN [owner EXCEPT !.alarm = time + ttlSeconds * 1000]
    ELSE owner

\* setTtlAlarm(): ttlSeconds = parseInt(env.DO_TTL_SECONDS, 10);
\* if (ttlSeconds && ttlSeconds > 0) storage.setAlarm(Date.now() + ttlSeconds * 1000)
setTtlAlarm(owner, ttlSeconds, time) ==
    IF ttlSeconds > 0 THEN [owner EXCEPT !.alarm = time + ttlSeconds * 1000]
    ELSE owner

\* alarm(): storage.deleteAll(); inMemoryState is not touched.
alarm(owner) ==
    [owner EXCEPT !.storage = NullState, !.alarm = NullTime, !.epoch = @ + 1]

\* getState(): the owner after the call; the state returned is its
\* inMemoryState[1].
getState(owner) ==
    IF owner.inMemoryState # << >> THEN owner
    ELSE [owner EXCEPT !.inMemoryState = <<[k \in Keys |-> OrNull(owner.storage[k])]>>]

\* getState() when storage.get rejects and nothing is cached: the catch
\* block sets inMemoryState to the null triple, which getState returns.
getStateFailed(owner) ==
    IF owner.inMemoryState # << >> THEN owner
    ELSE [owner EXCEPT !.inMemoryState = <<NullState>>]

\* a variant of persistState that does not write the last event
persistState_withoutEvent(owner, state) ==
    [owner EXCEPT !.inMemoryState = <<state>>,
                  !.storage = [k \in Keys |-> IF k = "eID" THEN Null ELSE state[k]]]

\* a variant of persistState that writes nothing
persistState_nothing(owner, state) == owner

\* persistState(state): inMemoryState = state; storage.put({cID, sID, eID})
persistState(owner, state) ==
    [owner EXCEPT !.inMemoryState = <<state>>,
                  !.storage = [k \in Keys |-> state[k]]]

SessionCookieSeconds == 31536000

\* new Date(Date.now() + seconds * 1000), in whole seconds as toUTCString
\* prints it
expiresOf(time, seconds) == (time \div 1000) + seconds

\* generateCookies(newState)
generateCookies(newState, time) ==
    LET expires == expiresOf(time, SessionCookieSeconds)
    IN set(CID_COOKIE, newState.cID, expires)
       \o set(SID_COOKIE, newState.sID, expires)
       \o set(EID_COOKIE, newState.eID, expires)

\* The cookie candidates read from the request on the rehydration path:
\* storageHelper.get(CID_COOKIE, cookieHeader), and the same for sID and eID.
cookieStateOf(request) ==
    IF Falsy(request.cookie) THEN NullState
    ELSE LET cookies == parseCookies(request.cookie)
         IN [cID |-> valueIn(cookies, CID_COOKIE),
             sID |-> valueIn(cookies, SID_COOKIE),
             eID |-> valueIn(cookies, EID_COOKIE)]

\* the cookies trusted whether or not they hold a client id
rehydrates_anyCookie(currentState, cookieState) == currentState.cID = Null

\* if (currentState.cID === null) { ...; if (cookieState.cID) {...} }
rehydrates(currentState, cookieState) ==
    currentState.cID = Null /\ Truthy(cookieState.cID)

\* The engine as SessionDO.processSession runs it: on the rehydration path
\* rehydrate() first, then process() on the state rehydrate() returned.
\* minted lists the identifiers of both invocations.
runEngine(currentState, cookieState, time, r1, r2) ==
    IF rehydrates(currentState, cookieState)
    THEN LET rehydrated == rehydrate(cookieState, time, r1)
             result == process(handlerOf(rehydrated.newState), time, r2)
         IN [result EXCEPT !.minted = rehydrated.minted \o @]
    ELSE process(handlerOf(currentState), time, r2)

\* The sessionContext of SessionDO.processSession.
sessionContextOf(result, frame, time) ==
    [cID |-> result.newState.cID, sID |-> result.newState.sID,
     eID |-> result.newState.eID, clientTime |-> result.newState.clientTime,
     sessionTime |-> result.newState.sessionTime,
     eventTime |-> result.newState.eventTime,
     oldState |-> result.oldState,
     isNewClient |-> result.changes.isNewClient,
     isNewSession |-> result.changes.isNewSession,
     doID |-> frame.doName, fpID |-> frame.fpID,
     isNewDoID |-> frame.isNewDoID, isNewFpID |-> frame.isNewFpID,
     setCookieHeaders |-> generateCookies(result.newState, time)]

FpIdSeconds == 31536000

\* worker.mjs after the owner has answered:
\* if (isNewFpID) session.setCookieHeaders.push(...storageReader.set(FPID_COOKIE, fpID, ...))
withFpCookie(session, time) ==
    IF session.isNewFpID
    THEN [session EXCEPT !.setCookieHeaders =
              @ \o set(FPID_COOKIE, session.fpID, expiresOf(time, FpIdSeconds))]
    ELSE session

(***************************************************************************)
(* lib/fallback.mjs, lib/fallbackRequest.mjs: the degraded first-visit     *)
(* context.  worker.mjs imports createFallbackRequest from                 *)
(* ./lib/fallback.mjs, which exports createFallbackContext only;           *)
(* fallbackRequest.mjs exports fallbackRequest, the builder that returns   *)
(* an enriched request as the router expects.                              *)
(***************************************************************************)
\* lib/fingerprint.mjs: createBrowserFingerprint(rawData) and
\* createStableDurableObjectKey(rawData) handed the Request itself, which has
\* no own enumerable property: both hash the empty object.
HashOfRequestObject == hashIsh(Obj(<< >>), KeyLength)

\* oldState: {}
EmptyObject == << >>

\* the builder with one identifier for the client and another for the session
fallbackSession_twoIds(time, randStr, doID, fpID) ==
    [cID |-> generateObject(MinRandLen, time, randStr).id,
     sID |-> generateObject(MinRandLen, time + 1, randStr).id,
     eID |-> generateObject(MinRandLen, time + 1, randStr).id,
     clientTime |-> time, sessionTime |-> time + 1, eventTime |-> time + 1,
     oldState |-> EmptyObject, isNewClient |-> TRUE, isNewSession |-> TRUE,
     isNewDoID |-> TRUE, isNewFpID |-> TRUE, doID |-> doID, fpID |-> fpID,
     setCookieHeaders |-> << >>]

\* The fields both builders fill in the same way: fallbackId =
\* pushID.newID(), fallbackTime = new Date(pushID.decodeTime(fallbackId)).
fallbackSession(time, randStr, doID, fpID) ==
    LET fallbackId == generateObject(MinRandLen, time, randStr).id
        fallbackTime == DateOf(decodeTime(fallbackId))
    IN [cID |-> fallbackId, sID |-> fallbackId, eID |-> fallbackId,
        clientTime |-> fallbackTime, sessionTime |-> fallbackTime,
        eventTime |-> fallbackTime,
        oldState |-> EmptyObject, isNewClient |-> TRUE, isNewSession |-> TRUE,
        isNewDoID |-> TRUE, isNewFpID |-> TRUE, doID |-> doID, fpID |-> fpID,
        setCookieHeaders |-> << >>]

\* fallbackRequest(request, env): the session attached to the cloned request
fallbackRequest(request, time, randStr) ==
    fallbackSession(time, randStr, HashOfRequestObject, HashOfRequestObject)

\* createFallbackContext(request, env): the context returned, without the
\* enriched request
createFallbackContext(request, time, randStr) ==
    fallbackSession(time, randStr, createStableDurableObjectKey(request),
                    createBrowserFingerprint(request))

\* How the call createFallbackRequest(request, env) in the catch block can
\* come out: as the builder of fallbackRequest.mjs, or, the name not being
\* exported by the module it is imported from, as a TypeError.
FallbackBindings == {"fallbackRequest", "unresolved"}

(***************************************************************************)
(* wae/index.mjs: the analytics data points.                               *)
(***************************************************************************)
Bit(b) == IF b THEN 1 ELSE 0

\* session.isFallback, a property neither the owner nor the builders set
isFallbackOf(session) ==
    IF "isFallback" \in DOMAIN session THEN session.isFallback ELSE FALSE

\* session.cID === null || session.isFallback ? 1 : 0
fallbackFlag(session) == Bit(session.cID = Null \/ isFallbackOf(session))

dataPointOf(session) ==
    [index |-> session.cID,
     doubles |-> <<Bit(session.isNewClient), Bit(session.isNewFpID),
                   Bit(session.isNewSession), fallbackFlag(session)>>]

NoPoints == [events |-> << >>, sessions |-> << >>, clients |-> << >>]

\* the sessions dataset written on every request
sendAnalytics_sessionAlways(session) ==
    [events |-> <<dataPointOf(session)>>,
     sessions |-> <<dataPointOf(session)>>,
     clients |-> IF session.isNewClient THEN <<dataPointOf(session)>> ELSE << >>]

\* sendAnalytics(request, env, session) with STATS_EVENTS, STATS_SESSION and
\* STATS_CLIENT bound: the data points written to each dataset.
sendAnalytics(session) ==
    [events |-> <<dataPointOf(session)>>,
     sessions |-> IF session.isNewSession THEN <<dataPointOf(session)>> ELSE << >>,
     clients |-> IF session.isNewClient THEN <<dataPointOf(session)>> ELSE << >>]

(***************************************************************************)
(* State.                                                                  *)
(***************************************************************************)
VARIABLES
    now,      \* Date.now()
    ticks,    \* how often the clock has advanced
    eng,      \* the last direct invocation of the engine: input and result
    rt,       \* the last direct invocation of the router's naming: inputs and results
    owners,   \* name -> the SessionDO of that name: cache, storage, alarm
    calls,    \* request number -> the frame of a request in flight
    done,     \* the requests answered so far, in the order of the answers
    jar,      \* the cookies the visitor's browser holds
    nreq,     \* how many requests the router has accepted
    degraded, \* the requests answered by the fallback builder, in order
    codec,    \* the last direct invocation of the time codec
    hsh       \* the last direct invocation of the hash: inputs and results

sysVars == <<now, ticks, owners, calls, done, jar, nreq, degraded>>
vars == <<now, ticks, eng, rt, owners, calls, done, jar, nreq, degraded, codec, hsh>>

(***************************************************************************)
(* The engine invoked directly on a previous state supplied by the caller. *)
(***************************************************************************)
\* A legacy identifier minted at time t with the k-th random string.
IdAt(t, k) == encodeTime(t) \o [i \in 1..MinRandLen |-> charAt(k)]

\* '!' (33) is not in the alphabet.
UndecodableId == [i \in 1..(TimeLen + MinRandLen) |-> IF i = 3 THEN 33 ELSE charAt(0)]
ShortId == <<charAt(10), charAt(11)>>
\* a tagged identifier: <time>-<tag>-<suffix>
TaggedId(t) == encodeTime(t) \o <<Dash, charAt(40), Dash>> \o [i \in 1..MinRandLen |-> charAt(1)]

EngineIds ==
    {Null, << >>, IdAt(ClockStart, 0), IdAt(ClockStart + 1000, 1), IdAt(0, 0),
     TaggedId(ClockStart), UndecodableId, ShortId}

EngineTimes ==
    {ClockStart + 1000, ClockStart + SessionTimeout, ClockStart + SessionTimeout + 1}

NoResult == process([k \in Keys |-> Null], 0, << >>)

\* the check of the storage handler left out
processOf_neverThrows(options, time, randStr) ==
    [raised |-> FALSE,
     res |-> IF Len(options) = 0 THEN NoResult ELSE process(options[1], time, randStr)]

\* process(options = {}): options holds a storageHandler or none;
\* if (!storageHandler) throw new Error("A storageHandler must be provided.")
processOf(options, time, randStr) ==
    IF Len(options) = 0
    THEN [raised |-> TRUE, res |-> NoResult]
    ELSE [raised |-> FALSE, res |-> process(options[1], time, randStr)]

(***************************************************************************)
(* sessionManager(config): the engine with a configured sessionTimeout.    *)
(* The value is a number, undefined, NaN, a text that is no number ('abc') *)
(* or a text that is one ('60000'); v is the number where there is one.    *)
(***************************************************************************)
Num(n) == [t |-> "num", v |-> n]
Undefined == [t |-> "undefined", v |-> 0]
NaN == [t |-> "nan", v |-> 0]
Text == [t |-> "text", v |-> 0]
NumText(n) == [t |-> "numtext", v |-> n]

\* finalConfig = {sessionTimeout: 30 * 60 * 1000, ...config}: config is
\* << >> without the key sessionTimeout and <<value>> with it.
finalTimeout(config) ==
    IF Len(config) = 0 THEN Num(SessionTimeout) ELSE config[1]

\* x > sessionTimeout: the right side converted to a number, NaN for
\* undefined and for a text that is no number; a comparison with NaN is false.
greaterThan(x, sessionTimeout) ==
    IF sessionTimeout.t \in {"num", "numtext"} THEN x > sessionTimeout.v ELSE FALSE

\* lastActivityTime ? (Date.now() - lastActivityTime) > sessionTimeout : true
isSessionExpiredWith(lastActivityTime, time, sessionTimeout) ==
    IF lastActivityTime # NullTime /\ lastActivityTime # 0
    THEN greaterThan(time - lastActivityTime, sessionTimeout)
    ELSE TRUE

\* process() of sessionManager(config): as process, with the configured
\* timeout in isSessionExpired.
processWith(config, storageHandler, time, randStr) ==
    LET base == process(storageHandler, time, randStr)
        sID == storageHandler["sID"]
        lastActivityTime == lastActivityTimeOf(storageHandler["cID"], sID,
                                               storageHandler["eID"])
        isNewSession ==
            isNewSessionOf(sID, isSessionExpiredWith(lastActivityTime, time,
                                                     finalTimeout(config)))
        finalSID == finalSIDOf(isNewSession, sID, base.minted[1])
    IN [base EXCEPT !.changes.isNewSession = isNewSession,
                    !.newState.sID = finalSID,
                    !.newState.sessionTime = DateOf(decodeTime(finalSID))]

\* The config of the owners that pass a timeout on:
\* {sessionTimeout: parseInt(env.SESSION_TIMEOUT_MS, 10) || 1800000}
constructorConfig(value) ==
    IF value.t \in {"num", "numtext"} /\ value.v # 0
    THEN <<Num(value.v)>>
    ELSE <<Num(SessionTimeout)>>

TimeoutValues ==
    {Undefined, NaN, Text, NumText(60000), Num(60000), Num(SessionTimeout)}

\* The engine is made by the caller with the value as sessionTimeout, or by
\* the constructor of an owner from the value of the environment variable.
TimeoutPaths == {"engine", "owner"}

EngInit ==
    eng = [called |-> FALSE, raised |-> FALSE, handler |-> FALSE,
           prev |-> [k \in Keys |-> Null], now |-> 0, res |-> NoResult,
           configured |-> FALSE, config |-> << >>,
           path |-> "engine", given |-> << >>]

\* manager.process({storageHandler: {get: key => prev[key]}}) at Date.now() = t
EngineCall ==
    \E c \in EngineIds, s \in EngineIds, e \in EngineIds, t \in EngineTimes :
      \E r \in newRnd(RandomnessLength) :
        LET prev == [cID |-> c, sID |-> s, eID |-> e]
            out == processOf(<<prev>>, t, r) IN
        /\ ~eng.called /\ ~eng.raised /\ ~eng.configured
        /\ eng' = [called |-> ~out.raised, raised |-> out.raised, handler |-> TRUE,
                   prev |-> prev, now |-> t, res |-> out.res,
                   configured |-> FALSE, config |-> << >>,
                   path |-> "engine", given |-> << >>]
        /\ UNCHANGED <<rt, codec, hsh, sysVars>>

\* manager.process() and manager.process({}): no storageHandler
EngineCallBare ==
    \E t \in EngineTimes :
      \E r \in newRnd(RandomnessLength) :
        LET out == processOf(<< >>, t, r) IN
        /\ ~eng.called /\ ~eng.raised /\ ~eng.configured
        /\ eng' = [called |-> ~out.raised, raised |-> out.raised, handler |-> FALSE,
                   prev |-> [k \in Keys |-> Null], now |-> t, res |-> out.res,
                   configured |-> FALSE, config |-> << >>,
                   path |-> "engine", given |-> << >>]
        /\ UNCHANGED <<rt, codec, hsh, sysVars>>

\* sessionManager(config).process({storageHandler}) on the state of a
\* returning visitor, with or without a last event of its own
EngineCallConfigured ==
    \E given \in {<< >>} \cup {<<value>> : value \in TimeoutValues},
       path \in TimeoutPaths, t \in EngineTimes,
       e \in {Null, IdAt(ClockStart, 0), IdAt(ClockStart + 1000, 1)} :
      \E config \in {IF path = "engine" THEN given
                      ELSE constructorConfig(IF Len(given) = 0 THEN Undefined
                                             ELSE given[1])} :
      \E r \in newRnd(RandomnessLength) :
        LET prev == [cID |-> IdAt(ClockStart, 0), sID |-> IdAt(ClockStart, 0), eID |-> e] IN
        /\ ~eng.called /\ ~eng.raised /\ ~eng.configured
        /\ eng' = [called |-> FALSE, raised |-> FALSE, handler |-> TRUE,
                   prev |-> prev, now |-> t, res |-> processWith(config, prev, t, r),
                   configured |-> TRUE, config |-> config,
                   path |-> path, given |-> given]
        /\ UNCHANGED <<rt, codec, hsh, sysVars>>

(***************************************************************************)
(* Properties of the engine invoked directly (EngineSpec).                 *)
(***************************************************************************)
Absent(prev) == \A k \in Keys : Falsy(prev[k])

\* C1: process() on a previous state whose clientID, sessionID and
\* lastEventID are all absent reports isNewClient and isNewSession, and the
\* new cID, sID and eID all equal the one identifier minted in the invocation.
C1_FirstContact ==
    (eng.called /\ Absent(eng.prev)) =>
        /\ eng.res.changes.isNewClient
        /\ eng.res.changes.isNewSession
        /\ Len(eng.res.minted) = 1
        /\ eng.res.newState.cID = eng.res.minted[1]
        /\ eng.res.newState.sID = eng.res.minted[1]
        /\ eng.res.newState.eID = eng.res.minted[1]

C1_Witness ==
    /\ eng.called
    /\ \A k \in Keys : eng.prev[k] = Null
    /\ eng.res.changes.isNewClient
    /\ eng.res.newState.cID = eng.res.newState.eID

\* The identifier whose time is the last activity: the first present one of
\* lastEventID, sessionID, clientID.
LastActivityId(prev) ==
    IF Truthy(prev.eID) THEN prev.eID
    ELSE IF Truthy(prev.sID) THEN prev.sID
    ELSE prev.cID

\* C2: with a present sessionID and a decodable last-activity time L,
\* isNewSession holds exactly when now - L > sessionTimeout (kept at exactly
\* the timeout, rotated one millisecond later).
C2_ExpiryBoundary ==
    (/\ eng.called
     /\ Truthy(eng.prev.sID)
     /\ decodeTime(LastActivityId(eng.prev)) # NullTime) =>
        (eng.res.changes.isNewSession <=>
            (eng.now - decodeTime(LastActivityId(eng.prev)) > 1800000))

C2_Witness ==
    /\ eng.called
    /\ Truthy(eng.prev.sID)
    /\ decodeTime(LastActivityId(eng.prev)) # NullTime
    /\ eng.now - decodeTime(LastActivityId(eng.prev)) = 1800000
    /\ ~eng.res.changes.isNewSession
    /\ eng.res.newState.sID = eng.prev.sID

\* C5: for every previous state and every now, one invocation of process()
\* mints exactly one identifier, and its decoded time is now.
C5_OneMint ==
    eng.called =>
        /\ Len(eng.res.minted) = 1
        /\ decodeTime(eng.res.minted[1]) = eng.now
        /\ eng.res.newState.eID = eng.res.minted[1]

C5_Witness ==
    /\ eng.called
    /\ Truthy(eng.prev.cID) /\ Truthy(eng.prev.sID) /\ Truthy(eng.prev.eID)
    /\ Len(eng.res.minted) = 1
    /\ decodeTime(eng.res.newState.eID) = eng.now
    /\ eng.res.newState.eID # eng.prev.eID

\* C24: for every previous state, the partial ones included (clientID
\* absent, sessionID or lastEventID present), when process() reports
\* isNewClient the new clientID, sessionID and eventID are one identifier.
C24_NewClientAllEqual ==
    (eng.called /\ eng.res.changes.isNewClient) =>
        /\ eng.res.newState.cID = eng.res.newState.sID
        /\ eng.res.newState.sID = eng.res.newState.eID

\* The last activity of the previous state can be decoded and is no longer
\* ago than the timeout.
WithinTimeout(prev, time) ==
    /\ decodeTime(LastActivityId(prev)) # NullTime
    /\ time - decodeTime(LastActivityId(prev)) <= SessionTimeout

\* C25: for every previous state with a clientID and a sessionID whose last
\* activity is within the timeout, process() reports isNewClient = false and
\* isNewSession = false and leaves clientID and sessionID as they were; only
\* lastEventID is replaced, by the minted identifier.
C25_ActiveSessionKept ==
    (/\ eng.called
     /\ Truthy(eng.prev.cID) /\ Truthy(eng.prev.sID)
     /\ WithinTimeout(eng.prev, eng.now)) =>
        /\ ~eng.res.changes.isNewClient
        /\ ~eng.res.changes.isNewSession
        /\ eng.res.newState.cID = eng.prev.cID
        /\ eng.res.newState.sID = eng.prev.sID
        /\ eng.res.newState.eID = eng.res.minted[1]
        /\ eng.res.oldState.cID = eng.prev.cID
        /\ eng.res.oldState.sID = eng.prev.sID
        /\ eng.res.oldState.eID = eng.prev.eID

\* a returning visitor one second after the session began, with a last
\* event of its own
C25_Witness ==
    /\ eng.called
    /\ Truthy(eng.prev.cID) /\ Truthy(eng.prev.sID) /\ Truthy(eng.prev.eID)
    /\ eng.prev.eID # eng.prev.sID
    /\ WithinTimeout(eng.prev, eng.now)
    /\ eng.now - decodeTime(eng.prev.sID) = 1000
    /\ eng.res.newState.sID = eng.prev.sID
    /\ eng.res.newState.cID = eng.prev.cID
    /\ eng.res.newState.eID # eng.prev.eID

C27_EventIdChanges ==
    eng.called => eng.res.newState.eID # eng.prev.eID

\* The first decoded time that is not null among lastEventID, sessionID and
\* clientID, in that order.
FirstDecodedTime(prev) ==
    IF decodeTime(prev.eID) # NullTime THEN decodeTime(prev.eID)
    ELSE IF decodeTime(prev.sID) # NullTime THEN decodeTime(prev.sID)
    ELSE decodeTime(prev.cID)

\* C28: the last-activity time is the first decoded time that is not null
\* among lastEventID, sessionID and clientID, in that order; an identifier
\* that is present but cannot be decoded counts like an absent one, so a
\* previous state with such a lastEventID gets the same isNewSession as the
\* same state without lastEventID.
C28_UndecodableLikeAbsent ==
    (eng.called /\ Truthy(eng.prev.eID) /\ decodeTime(eng.prev.eID) = NullTime) =>
        /\ eng.res.changes.isNewSession
              = isNewSessionOf(eng.prev.sID,
                               isSessionExpired(FirstDecodedTime(eng.prev), eng.now))
        /\ \A r \in newRnd(RandomnessLength) :
              eng.res.changes.isNewSession =
                  process([eng.prev EXCEPT !.eID = Null], eng.now, r).changes.isNewSession

\* An identifier that is a string but no well-formed one: empty, too short,
\* or with a character outside the alphabet.
Malformed(id) == id # Null /\ decodeTime(id) = NullTime

\* C29: process() raises an error exactly when it is invoked without a
\* storage handler; for every previous state of arbitrary strings (empty,
\* malformed, of the wrong length) it returns a result with one minted
\* identifier as the new lastEventID.
C29_RaisesIffNoHandler ==
    (eng.called \/ eng.raised) =>
        /\ eng.raised <=> ~eng.handler
        /\ eng.handler =>
              /\ eng.called
              /\ Len(eng.res.minted) = 1
              /\ eng.res.newState.eID = eng.res.minted[1]
              /\ decodeTime(eng.res.newState.eID) = eng.now
              /\ Truthy(eng.res.newState.cID) /\ Truthy(eng.res.newState.sID)

\* a previous state of three malformed strings, one of them empty
C29_Witness ==
    /\ eng.called /\ eng.handler /\ ~eng.raised
    /\ \A k \in Keys : Malformed(eng.prev[k])
    /\ eng.prev.cID = << >>
    /\ eng.prev.sID # eng.prev.eID
    /\ Len(eng.res.minted) = 1

\* The session id is rotated exactly when the last activity is longer ago
\* than the given number of milliseconds.
RotatesAfter(timeout) ==
    /\ eng.res.changes.isNewSession
          <=> (eng.now - decodeTime(LastActivityId(eng.prev)) > timeout)
    /\ eng.res.changes.isNewSession => eng.res.newState.sID = eng.res.minted[1]
    /\ ~eng.res.changes.isNewSession => eng.res.newState.sID = eng.prev.sID

\* C36: for every configured session timeout that is no number (undefined,
\* NaN, a text that is no number) the engine uses the default of 1,800,000
\* ms, so that a session idle for more than 30 minutes is still rotated.
C36_TimeoutDefault ==
    (/\ eng.configured
     /\ Len(eng.given) = 1
     /\ eng.given[1].t \in {"undefined", "nan", "text"}) =>
        RotatesAfter(SessionTimeout)

\* The part of C36 that holds: without the key sessionTimeout the default
\* is used, and a number is used as it is.
C36_TimeoutAbsentOrNumber ==
    /\ (eng.configured /\ Len(eng.config) = 0) => RotatesAfter(SessionTimeout)
    /\ (eng.configured /\ Len(eng.config) = 1 /\ eng.config[1].t = "num") =>
           RotatesAfter(eng.config[1].v)
    /\ (/\ eng.configured /\ eng.path = "owner"
        /\ \/ Len(eng.given) = 0
           \/ eng.given[1].t \in {"undefined", "nan", "text"}) =>
           RotatesAfter(SessionTimeout)

(***************************************************************************)
(* The router's naming applied directly to a pair of requests that differ  *)
(* at most in request.cf.                                                  *)
(***************************************************************************)
\* The Cookie header a browser sends for the cookies it holds.
CookieHeaderOf(nameValues) ==
    IF Len(nameValues) = 0 THEN Null ELSE join(nameValues, <<Semicolon, Space>>)

NameValues(setCookieHeaders) ==
    [i \in 1..Len(setCookieHeaders) |-> setCookieHeaders[i].nameValue]

\* The cookies of a browser that holds a client id the system minted.
HonestHeader == CookieHeaderOf(NameValues(set(CID_COOKIE, IdAt(ClockStart, 0), 0)))
\* Only the cookie that scripts can write.
ClientOnlyHeader == clientKeyOf(CID_COOKIE) \o <<Equals>> \o IdAt(ClockStart, 1)
\* A cookie written by hand: the stable key of the visitor as the client id.
ForgedHeader ==
    serverKeyOf(CID_COOKIE) \o <<Equals>> \o createStableDurableObjectKey(Visitor(Null))

RouterRequests ==
    {RequestOf(ip, ua, cf, cookie) :
        ip \in ModelIps, ua \in ModelUserAgents, cf \in CfChoices,
        cookie \in {Null, HonestHeader, ClientOnlyHeader, ForgedHeader}}

NoLocate == [doName |-> << >>, isNewDoID |-> FALSE, fpID |-> << >>, isNewFpID |-> FALSE]

RtInit ==
    rt = [called |-> FALSE, a |-> Visitor(Null), b |-> Visitor(Null),
          la |-> NoLocate, lb |-> NoLocate, ka |-> << >>, kb |-> << >>,
          sa |-> NoResult, sb |-> NoResult, pa |-> NoResult]

\* The router's naming of request a and of the same request with another cf.
RouterCall ==
    \E a \in RouterRequests, cf \in CfChoices :
        LET b == [a EXCEPT !.cf = cf] IN
        /\ ~rt.called
        /\ ~routerThrows(a)
        /\ rt' = [called |-> TRUE, a |-> a, b |-> b,
                  la |-> locate(a), lb |-> locate(b),
                  ka |-> createStableDurableObjectKey(a),
                  kb |-> createStableDurableObjectKey(b),
                  sa |-> NoResult, sb |-> NoResult, pa |-> NoResult]
        /\ UNCHANGED <<eng, codec, hsh, sysVars>>

\* a and b differ only in cf.colo (another value, or absent in one of them)
SameButColo(a, b) ==
    /\ a.ip = b.ip /\ a.userAgent = b.userAgent /\ a.acceptLang = b.acceptLang
    /\ a.acceptEnc = b.acceptEnc /\ a.cookie = b.cookie
    /\ cfGet(a, "tlsCipher") = cfGet(b, "tlsCipher")
    /\ cfGet(a, "httpProtocol") = cfGet(b, "httpProtocol")

\* C9: two requests that differ only in cf.colo (different, or missing in
\* one) get the same stable key, and with no client-id cookie the router
\* gives both the same owner name.
C9_StableKeyIgnoresColo ==
    (rt.called /\ SameButColo(rt.a, rt.b)) =>
        /\ rt.ka = rt.kb
        /\ Falsy(existingCIDOf(rt.a)) => rt.la.doName = rt.lb.doName

C9_Witness ==
    /\ rt.called
    /\ SameButColo(rt.a, rt.b)
    /\ Truthy(cfGet(rt.a, "colo"))
    /\ cfGet(rt.a, "colo") # cfGet(rt.b, "colo")
    /\ Falsy(existingCIDOf(rt.a))
    /\ rt.la.doName = rt.lb.doName
    /\ rt.la.fpID # rt.lb.fpID

\* C10: the router names the owner by the client-id cookie when there is
\* one and by the stable key otherwise, isNewDoID is true exactly in the
\* second case, and doID has length 16 exactly when isNewDoID is true.
C10_RouterNaming ==
    rt.called =>
        /\ Truthy(existingCIDOf(rt.a)) =>
               (rt.la.doName = existingCIDOf(rt.a) /\ ~rt.la.isNewDoID)
        /\ Falsy(existingCIDOf(rt.a)) =>
               (rt.la.doName = rt.ka /\ rt.la.isNewDoID)
        /\ (Len(rt.la.doName) = KeyLength) <=> rt.la.isNewDoID

(***************************************************************************)
(* The rehydration path of SessionDO.processSession on an owner whose      *)
(* storage is empty, for two requests that differ in the values of their   *)
(* client-readable cookies.                                                *)
(***************************************************************************)
cookiePair(name, value) == name \o <<Equals>> \o encodeURIComponent(value)

\* The values a script can give a _cs_ cookie: identifiers of the format.
ClientValues == {IdAt(ClockStart, 0), IdAt(ClockStart, 1), IdAt(0, 0)}

\* Cookie headers: every HttpOnly cookie with its _cs_ twin; the HttpOnly
\* client id with a _cs_ session id only; a _cs_ client id only; a session
\* id and an event id without any client id.
HeaderShapes == 1..4

HeaderOf(shape, value) ==
    IF shape = 1
    THEN join(<<cookiePair(serverKeyOf(CID_COOKIE), IdAt(ClockStart, 0)),
                cookiePair(clientKeyOf(CID_COOKIE), value),
                cookiePair(serverKeyOf(SID_COOKIE), IdAt(ClockStart, 0)),
                cookiePair(clientKeyOf(SID_COOKIE), value),
                cookiePair(serverKeyOf(EID_COOKIE), IdAt(ClockStart, 0)),
                cookiePair(clientKeyOf(EID_COOKIE), value)>>, <<Semicolon, Space>>)
    ELSE IF shape = 2
    THEN join(<<cookiePair(serverKeyOf(CID_COOKIE), IdAt(ClockStart, 0)),
                cookiePair(clientKeyOf(SID_COOKIE), value)>>, <<Semicolon, Space>>)
    ELSE IF shape = 3
    THEN cookiePair(clientKeyOf(CID_COOKIE), value)
    ELSE join(<<cookiePair(serverKeyOf(SID_COOKIE), IdAt(ClockStart, 0)),
                cookiePair(clientKeyOf(EID_COOKIE), value)>>, <<Semicolon, Space>>)

\* What processSession rehydrates from the cookies of the request when
\* currentState.cID === null.
rehydratedOf(request, time, randStr) ==
    IF rehydrates(NullState, cookieStateOf(request))
    THEN rehydrate(cookieStateOf(request), time, randStr)
    ELSE NoResult

\* Two requests of one shape are named by the router and rehydrated by
\* owners with empty storage, at the same time and with the same randomness.
RehydrateCall ==
    \E shape \in HeaderShapes, v \in ClientValues, w \in ClientValues,
       ip \in ModelIps, ua \in ModelUserAgents, randStr \in newRnd(RandomnessLength) :
    \E a \in {RequestOf(ip, ua, CfOf(Null, Null), HeaderOf(shape, v))} :
    \E b \in {RequestOf(ip, ua, CfOf(Null, Null), HeaderOf(shape, w))} :
        /\ ~rt.called
        /\ ~routerThrows(a) /\ ~routerThrows(b)
        /\ rt' = [called |-> TRUE, a |-> a, b |-> b,
                  la |-> locate(a), lb |-> locate(b),
                  ka |-> createStableDurableObjectKey(a),
                  kb |-> createStableDurableObjectKey(b),
                  sa |-> rehydratedOf(a, now, randStr),
                  sb |-> rehydratedOf(b, now, randStr),
                  pa |-> runEngine(NullState, cookieStateOf(a), now, randStr, randStr)]
        /\ UNCHANGED <<eng, codec, hsh, sysVars>>

\* name starts with the prefix and _cs_
IsClientName(name) ==
    /\ Len(name) >= Len(clientKeyOf(<< >>))
    /\ SubSeq(name, 1, Len(clientKeyOf(<< >>))) = clientKeyOf(<< >>)

\* The cookies of a and b have the same names in the same order, and the
\* same values except for the _cs_ cookies; everything else is the same.
SameButClientCookies(a, b) ==
    /\ a.ip = b.ip /\ a.userAgent = b.userAgent /\ a.acceptLang = b.acceptLang
    /\ a.acceptEnc = b.acceptEnc /\ a.cf = b.cf
    /\ Truthy(a.cookie) /\ Truthy(b.cookie)
    /\ LET ca == parseCookies(a.cookie)
           cb == parseCookies(b.cookie)
       IN /\ Len(ca) = Len(cb)
          /\ \A i \in DOMAIN ca :
                /\ ca[i][1] = cb[i][1]
                /\ IsClientName(ca[i][1]) \/ ca[i][2] = cb[i][2]

\* The keys of an attribute map.
keysOf(data) == {data.v[i][1] : i \in DOMAIN data.v}

StableKeys == {IP_KEY, UA_KEY, LANG_KEY, ENC_KEY, CIPHER_KEY, PROTO_KEY}

\* The attribute map of the fingerprint with the routing hint always there,
\* the empty string standing for a missing one.
WithHint(request) ==
    Obj(getRawFingerprintData(request, FALSE).v
        \o << <<COLO_KEY, Str(OrEmpty(cfGet(request, "colo")))>> >>)

\* C32: the attribute map that is hashed always has the same shape: every
\* attribute of the variant is present (the routing hint too, for the
\* fingerprint), the empty string standing for a missing one, so the
\* fingerprint of a request without routing hint is the hash of a map that
\* still has the hint key.
C32_StableShape ==
    rt.called =>
        /\ keysOf(getRawFingerprintData(rt.a, FALSE)) = StableKeys
        /\ keysOf(getRawFingerprintData(rt.a, TRUE)) = StableKeys \cup {COLO_KEY}
        /\ rt.la.fpID = hashOf(WithHint(rt.a))

\* The part of C32 that holds: the six attributes of the stable key are
\* always in the map, and the hint is in the fingerprint's map when the
\* request has one.
C32_StableKeyShape ==
    rt.called =>
        /\ keysOf(getRawFingerprintData(rt.a, FALSE)) = StableKeys
        /\ Truthy(cfGet(rt.a, "colo")) =>
              /\ keysOf(getRawFingerprintData(rt.a, TRUE)) = StableKeys \cup {COLO_KEY}
              /\ rt.la.fpID = hashOf(WithHint(rt.a))

\* C31: when the owner has no persisted clientID and the request carries no
\* candidate clientID, rehydration is skipped and the request is processed as
\* a first-ever contact (isNewClient and isNewSession true, the three ids one
\* minted identifier, an empty previous state), whatever sessionID and
\* lastEventID candidates the request carries.
C31_NoClientIdNoRehydration ==
    (rt.called /\ rt.pa # NoResult /\ Falsy(cookieStateOf(rt.a).cID)) =>
        /\ rt.sa = NoResult
        /\ rt.pa.changes.isNewClient /\ rt.pa.changes.isNewSession
        /\ Len(rt.pa.minted) = 1
        /\ rt.pa.newState.cID = rt.pa.minted[1]
        /\ rt.pa.newState.sID = rt.pa.minted[1]
        /\ rt.pa.newState.eID = rt.pa.minted[1]
        /\ \A k \in Keys : rt.pa.oldState[k] = Null

\* the request carries a live session id and an event id, but no client id
C31_Witness ==
    /\ rt.called /\ rt.pa # NoResult
    /\ Falsy(cookieStateOf(rt.a).cID)
    /\ Truthy(cookieStateOf(rt.a).sID) /\ Truthy(cookieStateOf(rt.a).eID)
    /\ now - decodeTime(cookieStateOf(rt.a).eID) <= SessionTimeout
    /\ rt.pa.changes.isNewSession
    /\ rt.pa.newState.sID # cookieStateOf(rt.a).sID

\* C23: the state an owner rehydrates depends only on the HttpOnly cookies:
\* two requests that are the same except for the values of their _cs_
\* cookies are rehydrated to the same clientID, sessionID and change flags.
C23_RehydrationIgnoresClientCookies ==
    (rt.called /\ rt.sa # NoResult /\ rt.sb # NoResult
               /\ SameButClientCookies(rt.a, rt.b)) =>
        /\ rt.sa.newState.cID = rt.sb.newState.cID
        /\ rt.sa.newState.sID = rt.sb.newState.sID
        /\ rt.sa.changes = rt.sb.changes

\* The part of C23 that holds: with all three HttpOnly cookies in the header
\* the _cs_ values make no difference.
C23_ServerCookiesWin ==
    (rt.called /\ rt.sa # NoResult /\ rt.sb # NoResult
               /\ SameButClientCookies(rt.a, rt.b)
               /\ \A key \in {CID_COOKIE, SID_COOKIE, EID_COOKIE} :
                      Truthy(lookup(parseCookies(rt.a.cookie), serverKeyOf(key)))) =>
        /\ rt.sa.newState.cID = rt.sb.newState.cID
        /\ rt.sa.newState.sID = rt.sb.newState.sID
        /\ rt.sa.changes = rt.sb.changes

(***************************************************************************)
(* The system: one visitor sends requests through the router to the        *)
(* owners; the clock advances, alarms fire, owners are evicted from        *)
(* memory.                                                                 *)
(*                                                                         *)
(* SessionDO.processSession suspends at `await this.setTtlAlarm()` and at  *)
(* `await this.getState()`.  A Durable Object delivers no other event      *)
(* (request or alarm) to an instance while one of its handlers waits for   *)
(* storage, so an owner with a request between Deliver and Process is      *)
(* Busy.                                                                   *)
(***************************************************************************)
OwnerOf(name) == IF name \in DOMAIN owners THEN owners[name] ELSE FreshOwner

SetOwner(name, owner) ==
    [n \in (DOMAIN owners) \cup {name} |-> IF n = name THEN owner ELSE owners[n]]

Busy(name) ==
    \E f \in calls : f.doName = name /\ f.pc \in {"alarmSet", "stateRead"}

\* The name of a cookie: what stands before the first '='.
nameOf(nameValue) == splitOn(nameValue, Equals)[1]

\* The browser stores the cookies of a response over those of the same name.
storeCookies(held, received) ==
    LET replaced == {nameOf(received[i]) : i \in DOMAIN received}
        Kept(c) == nameOf(c) \notin replaced
    IN SelectSeq(held, Kept) \o received

\* The Cookie headers the visitor can send: none, the cookies the browser
\* holds, or the forged one.
CookieChoices == {Null, CookieHeaderOf(jar), ForgedHeader}

\* worker.mjs processSession up to the call of sessionStub.processSession,
\* for a request with one of the given Cookie headers.
ArriveWith(cookies) ==
    /\ nreq < MaxRequests
    /\ Cardinality(calls) < MaxInFlight
    /\ \E cookie \in cookies :
       \E request \in {Visitor(cookie)} :
       \E located \in {locate(request)} :
            /\ ~routerThrows(request)
            /\ calls' = calls \cup
                 {[id |-> nreq + 1, request |-> request, pc |-> "sent",
                   doName |-> located.doName, fpID |-> located.fpID,
                   isNewDoID |-> located.isNewDoID, isNewFpID |-> located.isNewFpID,
                   existingCID |-> existingCIDOf(request),
                   currentState |-> NullState, afterGc |-> FALSE,
                   readFailed |-> FALSE, alarmSetAt |-> NullTime,
                   with |-> {g.id : g \in {h \in calls : h.doName = located.doName}}]}
    /\ nreq' = nreq + 1
    /\ UNCHANGED <<now, ticks, owners, done, jar, eng, rt, degraded, codec, hsh>>

Arrive == ArriveWith(CookieChoices)

\* The owner takes up the request: await this.setTtlAlarm().
Deliver ==
    \E f \in calls :
        /\ f.pc = "sent"
        /\ ~Busy(f.doName)
        /\ owners' = SetOwner(f.doName, setTtlAlarm(OwnerOf(f.doName), TtlSeconds, now))
        /\ calls' = (calls \ {f}) \cup
             {[f EXCEPT !.pc = "alarmSet", !.alarmSetAt = now]}
        /\ UNCHANGED <<now, ticks, done, jar, nreq, eng, rt, degraded, codec, hsh>>

\* let currentState = await this.getState()
GetState ==
    \E f \in calls :
        /\ f.pc = "alarmSet"
        /\ LET owner == OwnerOf(f.doName)
               loaded == getState(owner)
           IN /\ owners' = SetOwner(f.doName, loaded)
              /\ calls' = (calls \ {f}) \cup
                   {[f EXCEPT !.pc = "stateRead",
                              !.currentState = loaded.inMemoryState[1],
                              !.afterGc = owner.epoch > 0 /\ owner.storage.cID = Null]}
        /\ UNCHANGED <<now, ticks, done, jar, nreq, eng, rt, degraded, codec, hsh>>

\* The rest of SessionDO.processSession (rehydration, the engine,
\* persistState, generateCookies) and of the router's processSession (the
\* fingerprint cookie); the browser stores the cookies of the answer.
Process ==
    \E f \in calls :
        /\ f.pc = "stateRead"
        /\ \E r1 \in newRnd(RandomnessLength), r2 \in newRnd(RandomnessLength) :
           \E cookieState \in {IF f.currentState.cID = Null
                                THEN cookieStateOf(f.request) ELSE NullState} :
           \E result \in {runEngine(f.currentState, cookieState, now, r1, r2)} :
           \E persisted \in {persistState(OwnerOf(f.doName), result.newState)} :
           \E session \in {withFpCookie(sessionContextOf(result, f, now), now)} :
                /\ URIError \notin {cookieState.cID, cookieState.sID, cookieState.eID}
                /\ owners' = SetOwner(f.doName, persisted)
                /\ done' = Append(done,
                     [id |-> f.id, request |-> f.request, session |-> session,
                      existingCID |-> f.existingCID,
                      started |-> f.currentState, cookieState |-> cookieState,
                      rehydrated |-> rehydrates(f.currentState, cookieState),
                      at |-> now, minted |-> result.minted,
                      epoch |-> OwnerOf(f.doName).epoch,
                      with |-> f.with, afterGc |-> f.afterGc,
                      put |-> persisted.storage,
                      readFailed |-> f.readFailed,
                      stored |-> OwnerOf(f.doName).storage,
                      alarmAt |-> OwnerOf(f.doName).alarm,
                      alarmSetAt |-> f.alarmSetAt,
                      points |-> sendAnalytics(session)])
                /\ jar' = storeCookies(jar, NameValues(session.setCookieHeaders))
        /\ calls' = calls \ {f}
        /\ UNCHANGED <<now, ticks, nreq, eng, rt, degraded, codec, hsh>>

\* The alarm of an owner fires: alarm().
Alarm ==
    \E name \in DOMAIN owners :
        /\ owners[name].alarm # NullTime
        /\ now >= owners[name].alarm
        /\ ~Busy(name)
        /\ owners' = SetOwner(name, alarm(owners[name]))
        /\ UNCHANGED <<now, ticks, calls, done, jar, nreq, eng, rt, degraded, codec, hsh>>

\* An idle owner is evicted from memory; the constructor runs again before
\* its next event: this.inMemoryState = null.
Evict ==
    \E name \in DOMAIN owners :
        /\ owners[name].inMemoryState # << >>
        /\ ~Busy(name)
        /\ owners' = SetOwner(name, [owners[name] EXCEPT !.inMemoryState = << >>])
        /\ UNCHANGED <<now, ticks, calls, done, jar, nreq, eng, rt, degraded, codec, hsh>>

\* Time passes: a millisecond, or the session timeout while no request is
\* in flight (a request is answered long before the timeout).
Tick ==
    \E d \in {1, SessionTimeout} :
        /\ ticks < MaxTicks
        /\ d = SessionTimeout => calls = {}
        /\ now' = now + d
        /\ ticks' = ticks + 1
        /\ UNCHANGED <<owners, calls, done, jar, nreq, eng, rt, degraded, codec, hsh>>

(***************************************************************************)
(* Faults (FaultSpec): a cookie that cannot be decoded, an owner that      *)
(* cannot be reached, a storage read that fails, and a call of the owner   *)
(* that is rejected after the owner has run.  The requests follow each     *)
(* other within the same millisecond, so no alarm fires between them.      *)
(***************************************************************************)
MaxFaults == 1

\* a client-id cookie whose value is no valid percent-encoding: the router's
\* storageReader.get throws
BrokenClientHeader == serverKeyOf(CID_COOKIE) \o <<Equals, Percent>>

\* a readable client-id cookie and a session-id cookie that cannot be
\* decoded: the owner's storageHelper.get throws
BrokenSessionHeader ==
    ForgedHeader \o <<Semicolon, Space>> \o serverKeyOf(SID_COOKIE) \o <<Equals, Percent>>

faults == Len(degraded) + Cardinality({f \in calls : f.readFailed})
           + Cardinality({i \in DOMAIN done : done[i].readFailed})

\* The catch block of worker.mjs and what follows it: the fallback builder,
\* sendAnalytics, the answer.  With the builder unresolved the error leaves
\* processSession and neither analytics nor an answer follow.
Degrade(id, request, cause, doName, before, after, binding, randStr) ==
    /\ faults < MaxFaults
    /\ \E session \in {IF binding = "unresolved" THEN << >>
                        ELSE <<fallbackRequest(request, now, randStr)>>} :
         degraded' = Append(degraded,
             [id |-> id, request |-> request, cause |-> cause, at |-> now,
              binding |-> binding, session |-> session,
              context |-> createFallbackContext(request, now, randStr),
              randomness |-> randStr,
              doName |-> doName, storageBefore |-> before,
              storageAfter |-> after,
              points |-> IF binding = "unresolved" THEN NoPoints
                         ELSE sendAnalytics(session[1])])

\* storageReader.get throws on the Cookie header of the request.
ArriveFails ==
    /\ nreq < MaxRequests
    /\ \E request \in {Visitor(BrokenClientHeader)} :
       \E binding \in FallbackBindings, randStr \in newRnd(MinRandLen) :
            /\ routerThrows(request)
            /\ Degrade(nreq + 1, request, "cookies", Null, NullState, NullState,
                       binding, randStr)
    /\ nreq' = nreq + 1
    /\ UNCHANGED <<now, ticks, owners, calls, done, jar, eng, rt, codec, hsh>>

\* A request whose client-id cookie the router can read and whose session-id
\* cookie the owner cannot.
ArriveBroken == ArriveWith({BrokenSessionHeader})

\* await sessionStub.processSession(...) rejects before the owner has taken
\* up the request: the owner cannot be reached.
CallFails ==
    \E f \in calls :
    \E binding \in FallbackBindings, randStr \in newRnd(MinRandLen) :
        /\ f.pc = "sent"
        /\ Degrade(f.id, f.request, "unreachable", f.doName,
                   OwnerOf(f.doName).storage, OwnerOf(f.doName).storage,
                   binding, randStr)
        /\ calls' = calls \ {f}
        /\ UNCHANGED <<now, ticks, owners, done, jar, nreq, eng, rt, codec, hsh>>

\* storageHelper.get throws in the owner on the rehydration path, after
\* setTtlAlarm and getState and before process and persistState.
OwnerThrows ==
    \E f \in calls :
    \E binding \in FallbackBindings, randStr \in newRnd(MinRandLen) :
    \E cookieState \in {IF f.currentState.cID = Null
                         THEN cookieStateOf(f.request) ELSE NullState} :
        /\ f.pc = "stateRead"
        /\ URIError \in {cookieState.cID, cookieState.sID, cookieState.eID}
        /\ Degrade(f.id, f.request, "owner", f.doName,
                   OwnerOf(f.doName).storage, OwnerOf(f.doName).storage,
                   binding, randStr)
        /\ calls' = calls \ {f}
        /\ UNCHANGED <<now, ticks, owners, done, jar, nreq, eng, rt, codec, hsh>>

\* The owner runs processSession to its end, and the router's await of the
\* call is rejected all the same (the rejection of a remote call does not
\* tell how far the callee got): the owner has persisted, the router
\* answers with the fallback.
ReplyLost ==
    \E f \in calls :
    \E binding \in FallbackBindings, randStr \in newRnd(MinRandLen) :
    \E r1 \in newRnd(RandomnessLength), r2 \in newRnd(RandomnessLength) :
    \E cookieState \in {IF f.currentState.cID = Null
                         THEN cookieStateOf(f.request) ELSE NullState} :
    \E result \in {runEngine(f.currentState, cookieState, now, r1, r2)} :
    \E persisted \in {persistState(OwnerOf(f.doName), result.newState)} :
        /\ f.pc = "stateRead"
        /\ URIError \notin {cookieState.cID, cookieState.sID, cookieState.eID}
        /\ owners' = SetOwner(f.doName, persisted)
        /\ Degrade(f.id, f.request, "reply", f.doName,
                   OwnerOf(f.doName).storage, persisted.storage, binding, randStr)
        /\ calls' = calls \ {f}
        /\ UNCHANGED <<now, ticks, done, jar, nreq, eng, rt, codec, hsh>>

\* let currentState = await this.getState() when storage.get rejects.
GetStateFails ==
    \E f \in calls :
        /\ f.pc = "alarmSet"
        /\ faults < MaxFaults
        /\ OwnerOf(f.doName).inMemoryState = << >>
        /\ LET owner == OwnerOf(f.doName)
               loaded == getStateFailed(owner)
           IN /\ owners' = SetOwner(f.doName, loaded)
              /\ calls' = (calls \ {f}) \cup
                   {[f EXCEPT !.pc = "stateRead",
                              !.currentState = loaded.inMemoryState[1],
                              !.readFailed = TRUE,
                              !.afterGc = owner.epoch > 0 /\ owner.storage.cID = Null]}
        /\ UNCHANGED <<now, ticks, done, jar, nreq, eng, rt, degraded, codec, hsh>>

(***************************************************************************)
(* Properties of the degraded answers (FaultSpec).  degraded[i] is the     *)
(* i-th request that ended in the catch block: its cause, the session of   *)
(* the answer (<<session>>, or << >> when the error left processSession),  *)
(* the context                                                            *)
(* createFallbackContext builds from the same inputs, the owner the        *)
(* request was routed to and what its storage held before.                 *)
(***************************************************************************)
\* The fallback contexts built for the i-th degraded request.
FallbackContextsOf(d) == Range(<<d.context>> \o d.session)

C12_RouterAlwaysAnswers ==
    \A i \in DOMAIN degraded :
        /\ degraded[i].session # << >>
        /\ degraded[i].session[1].isNewClient

\* C13: a request answered in degraded mode writes nothing to the persisted
\* triple of its owner and its answer carries no Set-Cookie header; so a
\* visitor whose first request was degraded is, on the next request, which
\* succeeds, met by an owner as empty as if the degraded request had never
\* been made.
C13_DegradedWritesNothing ==
    /\ \A i \in DOMAIN degraded :
          /\ degraded[i].storageAfter = degraded[i].storageBefore
          /\ \A k \in DOMAIN degraded[i].session :
                 degraded[i].session[k].setCookieHeaders = << >>
    /\ (Len(degraded) = 1 /\ Len(done) = 1 /\ degraded[1].id < done[1].id)
          => done[1].started = NullState

\* C14: when the owner's storage read fails during a request, the caller
\* gets the degraded first-visit context for that request (no Set-Cookie
\* header), and the owner writes no triple over the one persisted: the
\* client id persisted before is still in storage afterwards.
C14_ReadFailureDegrades ==
    \A i \in DOMAIN done :
        done[i].readFailed =>
            /\ done[i].session.setCookieHeaders = << >>
            /\ done[i].put = done[i].stored

\* The session and the data points of every request that was answered, by
\* the owner or by the fallback builder.
Answered ==
    {[session |-> done[i].session, points |-> done[i].points, fallback |-> FALSE] :
        i \in DOMAIN done}
    \cup {[session |-> degraded[i].session[1], points |-> degraded[i].points,
            fallback |-> TRUE] :
        i \in {k \in DOMAIN degraded : degraded[k].session # << >>}}

Populated(c) ==
    /\ c.cID # Null /\ c.sID # Null /\ c.eID # Null
    /\ Truthy(c.cID) /\ Truthy(c.sID) /\ Truthy(c.eID)
    /\ c.clientTime # NullTime /\ c.sessionTime # NullTime /\ c.eventTime # NullTime
    /\ "oldState" \in DOMAIN c
    /\ c.isNewClient \in BOOLEAN /\ c.isNewSession \in BOOLEAN

C33_FallbackKeys ==
    \A i \in DOMAIN degraded :
    \A k \in DOMAIN degraded[i].session :
        /\ degraded[i].session[k].fpID = createBrowserFingerprint(degraded[i].request)
        /\ degraded[i].session[k].doID = createStableDurableObjectKey(degraded[i].request)

\* The same for the context of createFallbackContext, the builder the
\* router does not call: it holds.
C33_ContextKeys ==
    \A i \in DOMAIN degraded :
        /\ degraded[i].context.fpID = createBrowserFingerprint(degraded[i].request)
        /\ degraded[i].context.doID = createStableDurableObjectKey(degraded[i].request)

\* C18: the fourth double of the data point is 1 exactly if the session
\* context of the request came from the fallback builder, and 0 for every
\* context the owner produced.
C18_FallbackFlag ==
    \A a \in Answered : \A p \in Range(a.points.events) :
        p.doubles[4] = Bit(a.fallback)

(***************************************************************************)
(* Properties of the system (Spec).  done[i] is the i-th answer: the       *)
(* session context, the state the request started from, the cookie         *)
(* candidates, the time of processing, the identifiers minted, the         *)
(* triple written to storage, and how often the owner's alarm had fired.   *)
(***************************************************************************)
\* C3: at one owner, with no firing of the alarm in between, every request
\* returns the clientID the first one returned, and the cID in storage is
\* that clientID.
C3_ClientIdStable ==
    /\ \A i \in DOMAIN done : \A j \in DOMAIN done :
         (i < j /\ done[i].session.doID = done[j].session.doID
                /\ done[i].epoch = done[j].epoch)
            => done[j].session.cID = done[i].session.cID
    /\ \A i \in DOMAIN done :
         done[i].epoch = OwnerOf(done[i].session.doID).epoch
            => OwnerOf(done[i].session.doID).storage.cID = done[i].session.cID

C3_Witness ==
    \E i \in DOMAIN done : \E j \in DOMAIN done :
        /\ i < j
        /\ done[i].session.doID = done[j].session.doID
        /\ done[i].epoch = done[j].epoch
        /\ done[j].at >= done[i].at + SessionTimeout
        /\ done[j].session.cID = done[i].session.cID
        /\ done[j].session.eID # done[i].session.eID
        /\ OwnerOf(done[i].session.doID).storage.cID = done[i].session.cID

\* The sessionID of the state a request started from: the cookie candidate
\* on the rehydration path, the owner's state otherwise.
StartSID(d) == IF d.rehydrated THEN d.cookieState.sID ELSE d.started.sID

\* C4: whenever the sessionID a request returns differs from the sessionID
\* of the state it started from, the returned context has isNewSession = true.
C4_SessionChangeIsFlagged ==
    \A i \in DOMAIN done :
        done[i].session.sID # StartSID(done[i]) => done[i].session.isNewSession

\* C30: every request the owner processes mints exactly one new identifier,
\* the new lastEventID, also when it is served through the rehydration path.
C30_OneMintPerRequest ==
    \A i \in DOMAIN done :
        /\ Len(done[i].minted) = 1
        /\ done[i].session.eID = done[i].minted[1]

\* C37: in every reachable state of an owner the in-memory cache is either
\* unpopulated or holds the same (cID, sID, eID) as the owner's storage.
C37_CacheMatchesStorage ==
    \A name \in DOMAIN owners :
        \/ owners[name].inMemoryState = << >>
        \/ \A k \in Keys : owners[name].inMemoryState[1][k] = owners[name].storage[k]

\* The part of C37 that holds: the cache of an owner whose alarm has never
\* fired is unpopulated or equal to its storage.
C37_CacheMatchesUntilAlarm ==
    \A name \in DOMAIN owners :
        owners[name].epoch = 0 =>
            \/ owners[name].inMemoryState = << >>
            \/ \A k \in Keys : owners[name].inMemoryState[1][k] = owners[name].storage[k]

\* The requests before the i-th one that the same owner processed.
EarlierOf(i) == {j \in 1..(i - 1) : done[j].session.doID = done[i].session.doID}

\* The owner of the i-th request has not rehydrated its state from cookies,
\* in that request or before.
NeverRehydrated(i) == \A j \in EarlierOf(i) \cup {i} : ~done[j].rehydrated

\* C38: in every state an owner persists, when it has never rehydrated its
\* state from cookies (the clock of the model never goes backwards), the
\* decoded times satisfy clientTime <= sessionTime <= eventTime, and the
\* eventTime of successive requests does not decrease.
C38_TimesOrdered ==
    \A i \in DOMAIN done :
        NeverRehydrated(i) =>
            /\ decodeTime(done[i].put.cID) # NullTime
            /\ decodeTime(done[i].put.cID) <= decodeTime(done[i].put.sID)
            /\ decodeTime(done[i].put.sID) <= decodeTime(done[i].put.eID)
            /\ \A j \in EarlierOf(i) :
                   decodeTime(done[j].put.eID) <= decodeTime(done[i].put.eID)

\* An owner that never rehydrated has persisted a second state, later than
\* its first, in a session that was either kept or rotated.
C38_Witness ==
    \E i \in DOMAIN done :
        /\ NeverRehydrated(i)
        /\ \E j \in EarlierOf(i) :
               decodeTime(done[j].put.eID) < decodeTime(done[i].put.eID)
        /\ decodeTime(done[i].put.cID) < decodeTime(done[i].put.eID)

\* C39: in every reachable state of an owner's storage, after any sequence
\* of requests and alarm firings, cID, sID and eID are either all present or
\* all absent.
C39_AllOrNothing ==
    \A name \in DOMAIN owners :
        \/ \A k \in Keys : Truthy(owners[name].storage[k])
        \/ \A k \in Keys : owners[name].storage[k] = Null

\* One owner holds a whole triple while the alarm of another one, or its
\* own at an earlier time, has emptied a storage that had been written.
C39_Witness ==
    /\ \E name \in DOMAIN owners :
          /\ owners[name].epoch > 0
          /\ \A k \in Keys : owners[name].storage[k] = Null
    /\ \E i \in DOMAIN done : \A k \in Keys : Truthy(done[i].put[k])

\* C6: on the rehydration path the ids, the oldState ids and the flags the
\* owner returns are those of one run of the engine on the cookie triple.
C6_RehydrationIsOneRun ==
    \A i \in DOMAIN done :
        done[i].rehydrated =>
            \E r \in newRnd(RandomnessLength) :
                LET once == process(handlerOf(done[i].cookieState), done[i].at, r)
                    s == done[i].session
                IN /\ s.cID = once.newState.cID
                   /\ s.sID = once.newState.sID
                   /\ s.eID = once.newState.eID
                   /\ s.oldState.cID = once.oldState.cID
                   /\ s.oldState.sID = once.oldState.sID
                   /\ s.oldState.eID = once.oldState.eID
                   /\ s.isNewClient = once.changes.isNewClient
                   /\ s.isNewSession = once.changes.isNewSession

\* C7: the first request an owner processes after its alarm has deleted its
\* storage, when it carries a client-id cookie, returns isNewClient = false
\* and the cookie's client id, and writes that client id to storage.
C7_RehydratedAfterCollection ==
    \A i \in DOMAIN done :
        (done[i].afterGc /\ Truthy(done[i].existingCID)) =>
            /\ ~done[i].session.isNewClient
            /\ done[i].session.cID = done[i].existingCID
            /\ done[i].put.cID = done[i].existingCID

C15_AlarmFollowsRequests ==
    [][(\A i \in DOMAIN done' :
            /\ done'[i].alarmAt = done'[i].alarmSetAt + TtlSeconds * 1000
            /\ done'[i].alarmSetAt <= done'[i].at)
       /\ (\A name \in DOMAIN owners :
              owners'[name].epoch > owners[name].epoch =>
                  /\ owners'[name].storage = NullState
                  /\ \A j \in DOMAIN done :
                         done[j].session.doID = name =>
                             now >= done[j].alarmSetAt + TtlSeconds * 1000)]_vars

\* an owner has processed a second request later than the first one and
\* its alarm has moved to the time of the second plus the TTL
C15_Witness ==
    \E i \in DOMAIN done, j \in DOMAIN done :
        /\ done[i].session.doID = done[j].session.doID
        /\ done[i].alarmSetAt < done[j].alarmSetAt
        /\ done[j].alarmAt = done[j].alarmSetAt + TtlSeconds * 1000
        /\ OwnerOf(done[j].session.doID).alarm = done[j].alarmAt

\* C16: once the alarm of an owner has fired and discarded the persisted
\* state, a following request without client-id cookie is treated as a
\* first-ever contact: isNewClient is true and the clientID is one minted
\* for this request.
C16_FirstContactAfterAlarm ==
    \A i \in DOMAIN done :
        (done[i].afterGc /\ Falsy(done[i].existingCID)) =>
            /\ done[i].session.isNewClient
            /\ done[i].session.cID \in Range(done[i].minted)

CodecLimbs ==
    {0, 1, 63, 64, 4096, 2 ^ 18 - 1, 2 ^ 18, Limb - 64, Limb - 1}

CodecTimes ==
    (CodecLimbs \X CodecLimbs) \cup {<<0, ClockStart>>, <<0, ClockStart + SessionTimeout>>}

\* No identifier minted yet.
NoMint == [id |-> << >>, randomness |-> << >>, date |-> NullTime, stub |-> Null]

\* op says which function of pushID has been called, if any: id and dec are
\* the argument and the result of decodeID, obj the result of newObj and
\* dec its decoding.
CodecInit ==
    codec = [called |-> FALSE, t1 |-> <<0, 0>>, t2 |-> <<0, 0>>,
             e1 |-> << >>, e2 |-> << >>, d1 |-> <<0, 0>>, n1 |-> << >>,
             op |-> "none", id |-> << >>, dec |-> NoObj, obj |-> NoMint,
             tag |-> Null]

\* The time segment of an id minted at t1 and of one minted at t2,
\* _decodeTime of the first, and, for a timestamp that fits one limb, the
\* time segment computed on plain integers.
CodecCall ==
    \E t1 \in CodecTimes, t2 \in CodecTimes :
        /\ ~codec.called /\ codec.op = "none"
        /\ codec' = [called |-> TRUE, t1 |-> t1, t2 |-> t2,
                     e1 |-> encodeTimeWide(t1), e2 |-> encodeTimeWide(t2),
                     d1 |-> decodeTimeWide(encodeTimeWide(t1)),
                     n1 |-> IF t1[1] = 0 THEN encodeTime(t1[2]) ELSE encodeTimeWide(t1),
                     op |-> "time", id |-> << >>, dec |-> NoObj, obj |-> NoMint,
                     tag |-> Null]
        /\ UNCHANGED <<eng, rt, hsh, sysVars>>

\* C19: for every timestamp t of at most 48 bits (0 <= t < 64^8), decoding
\* the 8-character time segment that encoding t produces returns exactly t.
C19_RoundTrip ==
    codec.called =>
        /\ Len(codec.e1) = TimeLen
        /\ codec.d1 = codec.t1
        /\ codec.n1 = codec.e1
        /\ (codec.t1[1] = 0 => decodeTimeStr(codec.e1) = codec.t1[2])

\* the largest timestamp of 8 digits has been encoded and decoded
C19_Witness ==
    /\ codec.called
    /\ codec.t1 = <<Limb - 1, Limb - 1>>
    /\ codec.d1 = codec.t1
    /\ codec.e1 = [i \in 1..TimeLen |-> charAt(63)]

\* C20: for timestamps t1 < t2 of at most 48 bits the time segment of t1 is
\* smaller than that of t2 in code-unit (byte-wise) lexicographic order, and
\* so is every identifier that starts with it.
C20_TimeOrder ==
    (codec.called /\ wideLess(codec.t1, codec.t2)) =>
        /\ strLess(codec.e1, codec.e2)
        /\ \A r1 \in newRnd(MinRandLen), r2 \in newRnd(MinRandLen) :
               strLess(codec.e1 \o r1, codec.e2 \o r2)

\* two timestamps that differ by one millisecond across a carry into the
\* high limb
C20_Witness ==
    /\ codec.called
    /\ codec.t1 = <<63, Limb - 1>>
    /\ codec.t2 = <<64, 0>>
    /\ strLess(codec.e1, codec.e2)

(***************************************************************************)
(* pushID.decodeID invoked directly on a string (CodecSpec).               *)
(***************************************************************************)
\* "abc", a time segment of three characters
ShortTime == <<charAt(37), charAt(38), charAt(39)>>

\* Strings that are no identifiers and strings that are: empty, shorter than
\* the time segment, a delimited form with a short or an empty time segment,
\* more than two delimiters, a character outside the alphabet, and
\* well-formed ones in both forms.
DecodeInputs ==
    {<< >>, ShortId, ShortTime,
     ShortTime \o <<Dash, charAt(40), Dash, charAt(41)>>,
     <<Dash, charAt(40), Dash, charAt(41)>>,
     encodeTime(ClockStart) \o <<Dash, charAt(40), Dash, charAt(41), Dash, charAt(42)>>,
     <<charAt(37), Dash, charAt(38), Dash, charAt(39), Dash, charAt(40)>>,
     encodeTime(ClockStart) \o <<Dash, Dash, Dash>>,
     UndecodableId,
     SubSeq(UndecodableId, 1, TimeLen) \o <<Dash, charAt(40), Dash, charAt(41)>>,
     IdAt(ClockStart, 0), IdAt(0, 1), TaggedId(ClockStart), encodeTime(ClockStart)}

\* pushID.decodeID(id)
DecodeCall ==
    \E id \in DecodeInputs :
        /\ ~codec.called /\ codec.op = "none"
        /\ codec' = [codec EXCEPT !.op = "decode", !.id = id, !.dec = decodeObj(id)]
        /\ UNCHANGED <<eng, rt, hsh, sysVars>>

\* The time segment of a string: what stands before the first delimiter when
\* there is one, the first 8 characters (or fewer) otherwise.
timeSegmentOf(id) ==
    IF Len(split(id)) > 1 THEN split(id)[1]
    ELSE SubSeq(id, 1, IF Len(id) < TimeLen THEN Len(id) ELSE TimeLen)

delimitersOf(id) == Len(split(id)) - 1

\* C34: decodeID returns the invalid result (null) for the empty string, for
\* every string whose time segment is shorter than 8 characters, for every
\* string with more than two delimiters, and for every string whose time
\* segment has a character outside the alphabet.
C34_InvalidInputs ==
    (/\ codec.op = "decode"
     /\ \/ Len(codec.id) = 0
        \/ Len(timeSegmentOf(codec.id)) < TimeLen
        \/ delimitersOf(codec.id) > 2
        \/ \E i \in DOMAIN timeSegmentOf(codec.id) :
               timeSegmentOf(codec.id)[i] \notin DOMAIN CHARS_MAP) =>
        ~codec.dec.ok

\* The part of C34 that holds: the empty string, a string without delimiter
\* that is shorter than 8 characters, and a time segment with a character
\* outside the alphabet are invalid.
C34_InvalidLegacy ==
    (/\ codec.op = "decode"
     /\ \/ Len(codec.id) = 0
        \/ delimitersOf(codec.id) = 0 /\ Len(codec.id) < TimeLen
        \/ /\ delimitersOf(codec.id) \in {0, 2}
           /\ \E i \in DOMAIN timeSegmentOf(codec.id) :
                 timeSegmentOf(codec.id)[i] \notin DOMAIN CHARS_MAP) =>
        ~codec.dec.ok

(***************************************************************************)
(* pushID.newObj invoked directly with a time, a stub and a suffix, and    *)
(* its identifier decoded (CodecSpec).                                     *)
(***************************************************************************)
\* _generateObject({time, stub, ...}) for a number time; randStr is
\* options.randomness, hashIsh(options.data, randLength) or newRnd(randLength).
\* useDelimitedFormat = stub && typeof stub === 'string'.
generateObjectOf(time, stub, randStr) ==
    IF Truthy(stub)
    THEN [id |-> join(<<encodeTime(time), stub, randStr>>, <<Dash>>),
          randomness |-> randStr, date |-> time, stub |-> stub]
    ELSE [id |-> encodeTime(time) \o randStr,
          randomness |-> randStr, date |-> time, stub |-> Null]

MintTimes == {0, ClockStart, ClockStart + SessionTimeout}

\* no stub, '', 'u' and 'a-b'
MintTags == {Null, << >>, <<117>>, <<97, Dash, 98>>}

\* The suffix: from newRnd, from hashIsh of the data "1", or given as
\* randomness: '', 'xy', 'x-y', 'x-y-z'.
MintSuffixes ==
    newRnd(MinRandLen) \cup {hashIsh(Str(<<49>>), MinRandLen)}
    \cup {<< >>, <<120, 121>>, <<120, Dash, 121>>, <<120, Dash, 121, Dash, 122>>}

\* obj = pushID.newObj({time, stub, randomness | data | length}) and
\* pushID.decodeID(obj.id)
MintCall ==
    \E time \in MintTimes, stub \in MintTags, randStr \in MintSuffixes :
    \E obj \in {generateObjectOf(time, stub, randStr)} :
        /\ ~codec.called /\ codec.op = "none"
        /\ codec' = [codec EXCEPT !.op = "mint", !.tag = stub, !.obj = obj,
                                  !.id = obj.id, !.dec = decodeObj(obj.id)]
        /\ UNCHANGED <<eng, rt, hsh, sysVars>>

\* The identifier is the legacy concatenation without a tag and the
\* delimited form with one, and decoding it gives back the timestamp, the
\* tag and the suffix of the mint.
MintRoundTrip ==
    /\ codec.id = (IF Falsy(codec.tag)
                   THEN encodeTime(codec.obj.date) \o codec.obj.randomness
                   ELSE encodeTime(codec.obj.date) \o <<Dash>> \o codec.tag
                        \o <<Dash>> \o codec.obj.randomness)
    /\ codec.dec.ok
    /\ codec.dec.date = codec.obj.date
    /\ codec.dec.stub = codec.obj.stub
    /\ codec.dec.randomness = codec.obj.randomness

\* C35: for every mint with a timestamp in range, any tag (absent, empty or
\* not) and any suffix (random, hashed or explicit), the id is the legacy
\* concatenation when the tag is absent or empty and the delimited form
\* otherwise, and decoding the id returns the timestamp, tag and suffix that
\* the mint returned.
C35_MintDecode == codec.op = "mint" => MintRoundTrip

\* The part of C35 that holds: tags and suffixes without the delimiter.
C35_MintDecodePlain ==
    (/\ codec.op = "mint"
     /\ codec.tag = Null \/ Dash \notin Range(codec.tag)
     /\ Dash \notin Range(codec.obj.randomness)) => MintRoundTrip

(***************************************************************************)
(* hashIsh invoked directly on two values (HashSpec).  An object is the    *)
(* sequence of its <<key, value>> entries in insertion order.              *)
(***************************************************************************)
\* {x: "1", y: "2"} with x inserted first, and with y inserted first
InnerXY == Obj(<<<<(<<120>>), Str(<<49>>)>>, <<(<<121>>), Str(<<50>>)>>>>)
InnerYX == Obj(<<<<(<<121>>), Str(<<50>>)>>, <<(<<120>>), Str(<<49>>)>>>>)

\* The entries a: v1, b: v2, ab: v3 and the orders they are inserted in.
EntriesOf(v1, v2, v3) == <<<<(<<97>>), v1>>, <<(<<98>>), v2>>, <<(<<97, 98>>), v3>>>>

Orders == {<<1, 2, 3>>, <<3, 2, 1>>, <<2, 3, 1>>}

ObjectsOf(v1, v2, v3) ==
    {Obj([i \in 1..3 |-> EntriesOf(v1, v2, v3)[order[i]]]) : order \in Orders}

HashInputs ==
    ObjectsOf(Str(<<49>>), Str(<<50>>), JsNull)
    \cup ObjectsOf(Str(<<50>>), Str(<<49>>), JsNull)
    \cup ObjectsOf(InnerXY, Str(<<50>>), Arr(<<InnerXY, Str(<<49>>)>>))
    \cup ObjectsOf(InnerYX, Str(<<50>>), Arr(<<InnerYX, Str(<<49>>)>>))
    \cup {Arr(<<InnerXY, InnerYX>>), Arr(<<InnerYX, InnerXY>>), InnerXY, InnerYX}

HashLengths == {MinRandLen, KeyLength}

HashInit == hsh = [called |-> FALSE, a |-> JsNull, b |-> JsNull, length |-> 0,
                   ha |-> << >>, hb |-> << >>]

\* hashIsh(a, length, PUSH_CHARS) and hashIsh(b, length, PUSH_CHARS)
HashCall ==
    \E a \in HashInputs, b \in HashInputs, length \in HashLengths :
        /\ ~hsh.called
        /\ hsh' = [called |-> TRUE, a |-> a, b |-> b, length |-> length,
                   ha |-> hashIsh(a, length), hb |-> hashIsh(b, length)]
        /\ UNCHANGED <<eng, rt, codec, sysVars>>

\* Two values are the same up to the insertion order of object keys: the
\* same strings, the same array elements in the same positions, the same
\* keys with the same values.
RECURSIVE sameValue(_, _)
sameValue(a, b) ==
    /\ a.t = b.t
    /\ Len(a.v) = Len(b.v)
    /\ IF a.t = "obj"
       THEN \A i \in DOMAIN a.v : \E j \in DOMAIN b.v :
                a.v[i][1] = b.v[j][1] /\ sameValue(a.v[i][2], b.v[j][2])
       ELSE IF a.t = "arr"
       THEN \A i \in DOMAIN a.v : sameValue(a.v[i], b.v[i])
       ELSE a.v = b.v

\* C21: two objects with the same keys and values have the same hash,
\* whatever the insertion order of their keys, at every nesting depth, for
\* the same length and alphabet.
C21_KeyOrderIrrelevant ==
    (hsh.called /\ sameValue(hsh.a, hsh.b)) =>
        /\ hsh.ha = hsh.hb
        /\ Len(hsh.ha) = hsh.length

\* two objects whose keys were inserted in different orders on the outside
\* and on the inside
C21_Witness ==
    /\ hsh.called
    /\ sameValue(hsh.a, hsh.b)
    /\ hsh.a # hsh.b
    /\ hsh.a.t = "obj" /\ hsh.a.v[1][1] # hsh.b.v[1][1]
    /\ \E i \in DOMAIN hsh.a.v, j \in DOMAIN hsh.b.v :
          /\ hsh.a.v[i][2] = InnerXY
          /\ hsh.b.v[j][2] = InnerYX
    /\ hsh.ha = hsh.hb

Init ==
    /\ now = ClockStart
    /\ ticks = 0
    /\ EngInit
    /\ RtInit
    /\ owners = [name \in {} |-> FreshOwner]
    /\ calls = {}
    /\ done = << >>
    /\ jar = << >>
    /\ nreq = 0
    /\ degraded = << >>
    /\ CodecInit
    /\ HashInit

EngineNext == EngineCall \/ EngineCallBare \/ EngineCallConfigured

EngineSpec == Init /\ [][EngineNext]_vars

RouterNext == RouterCall \/ RehydrateCall

RouterSpec == Init /\ [][RouterNext]_vars

CodecNext == CodecCall \/ DecodeCall \/ MintCall

CodecSpec == Init /\ [][CodecNext]_vars

HashNext == HashCall

HashSpec == Init /\ [][HashNext]_vars

Next == Arrive \/ Deliver \/ GetState \/ Process \/ Alarm \/ Evict \/ Tick

Spec == Init /\ [][Next]_vars

FaultNext ==
    \/ Arrive \/ Deliver \/ GetState \/ Process \/ Evict
    \/ ArriveFails \/ ArriveBroken \/ CallFails \/ OwnerThrows
    \/ ReplyLost \/ GetStateFails

FaultSpec == Init /\ [][FaultNext]_vars

=============================================================================
